---- MODULE Spec2Model ----
(***************************************************************************)
(* Model of terraform-provider-quicknode: the stream and endpoint resource *)
(* handlers (internal/provider) run against a remote service, and the      *)
(* throttled, retrying HTTP client (internal/client/transport).            *)
(*                                                                         *)
(* Spec          one resource operation (stream Update, endpoint Update)   *)
(*               run step by step, one step per remote call, against the   *)
(*               remote resource; another actor may change the remote      *)
(*               stream's status between two steps.                        *)
(* SpecGovernor  concurrent calls through the client built by              *)
(*               NewRetryableThrottledClient, sharing one limiter.         *)
(* SpecCodec     stream Create, Update and Read run over declared          *)
(*               attributes and remote payloads of every variant, to       *)
(*               exercise the codec of destination_attributes.             *)
(* SpecValidate  the plan-time checks: the Int64 range validators of the   *)
(*               stream schema and the endpoint's ModifyPlan, applied to   *)
(*               sampled configurations and chain catalogs.                *)
(* SpecGovernorLive  SpecGovernor with time that keeps passing while a     *)
(*               call waits, and weak fairness of the goroutines' steps.   *)
(***************************************************************************)
EXTENDS Integers, Sequences, FiniteSets, TLC

VARIABLES
    \* ---- resource handlers ----
    op,         \* the handler being run: "idle", "StreamUpdate", "EndpointUpdate"
    pc,         \* the handler's position: the remote call it is about to make
    plan,       \* the desired state handed to the handler (req.Plan)
    remote,     \* the remote stream, as the service holds it
    epRemote,   \* the remote endpoint, as the service holds it
    loc,        \* the handler's local variables
    tfstate,    \* resp.State: the state the handler has written
    written,    \* whether the handler has called resp.State.Set
    diags,      \* resp.Diagnostics: the error summaries added, in order
    calls,      \* history: the remote calls issued by the handler, in order
    interfered, \* history: how often another actor changed the remote stream
    \* ---- throttled transport ----
    capacity,   \* the tokens argument of NewRetryableThrottledClient
    now,        \* time, in ticks of one token interval (1 / rate)
    lim,        \* the limiter: [burst, tokens, last, lastEvent]
    cpc,        \* per call: its position
    ctx,        \* per call: its context, "live" or "cancelled"
    wake,       \* per call: the time its reservation may act
    acquired,   \* per call, history: tokens the call has acquired
    invoked,    \* per call, history: whether the wrapped transport was invoked
    attempts,   \* per call, history: attempts dispatched to the network
    lastResp,   \* per call: the outcome of its last attempt
    result,     \* per call: what the call returned
    hist        \* per call, history: whether an acquisition failed, the attempts
                \* dispatched by then, and the wait its context was cancelled in

engineVars == <<op, pc, plan, remote, epRemote, loc, tfstate, written, diags, calls, interfered>>
govVars == <<capacity, now, lim, cpc, ctx, wake, acquired, invoked, attempts, lastResp, result, hist>>
vars == <<engineVars, govVars>>

----------------------------------------------------------------------------
(* Bounds of the model.                                                    *)

\* How often another actor may change the remote stream during one operation.
MaxInterference == 1
\* The largest capacity (requests per second) a client is built with.
MaxCapacity == 2
\* The number of concurrent calls through one client.
NumCalls == 2
\* The last tick of the clock.
MaxTime == 2
\* The retries of one call (the retrying client's RetryMax).
RetryMax == 2

----------------------------------------------------------------------------
(* Terraform framework values: a value of a type is null or known.         *)

StringNull == [t |-> "String", null |-> TRUE, v |-> ""]
StringValue(s) == [t |-> "String", null |-> FALSE, v |-> s]
Int64Null == [t |-> "Int64", null |-> TRUE, v |-> 0]
Int64Value(i) == [t |-> "Int64", null |-> FALSE, v |-> i]
BoolNull == [t |-> "Bool", null |-> TRUE, v |-> FALSE]
BoolValue(b) == [t |-> "Bool", null |-> FALSE, v |-> b]
EmptyMap == [k \in {} |-> ""]
MapNull == [t |-> "Map", null |-> TRUE, v |-> EmptyMap]
MapValue(m) == [t |-> "Map", null |-> FALSE, v |-> m]
\* The zero value of types.Object (a field readStreamFromAPI never set) is null.
ObjectNull == [t |-> "Object", null |-> TRUE, v |-> EmptyMap]
ObjectValue(attrs) == [t |-> "Object", null |-> FALSE, v |-> attrs]
\* ValueString(), ValueInt64(), ValueBool() of a null value are "", 0, false.
ValueString(x) == IF x.null THEN "" ELSE x.v
ValueInt64(x) == IF x.null THEN 0 ELSE x.v
ValueBool(x) == IF x.null THEN FALSE ELSE x.v

----------------------------------------------------------------------------
(* HTTP outcomes of one remote call: a transport error (no response), or a *)
(* response with a status code.                                            *)

TransportError == [err |-> TRUE, code |-> 0]
Response(c) == [err |-> FALSE, code |-> c]
StatusCodes == {200, 201, 404, 500}
Outcomes == {TransportError} \cup {Response(c) : c \in StatusCodes}

----------------------------------------------------------------------------
(* Destination attributes: the schema's fields and the codec.              *)

StringFields == {"url", "compression", "security_token", "version", "access_key",
                 "secret_key", "bucket", "region", "endpoint", "object_prefix",
                 "file_compression", "file_type", "username", "password", "host",
                 "database", "table_name", "sslmode"}
Int64Fields == {"max_retry", "retry_interval_sec", "post_timeout_sec", "port"}
BoolFields == {"use_ssl"}
MapFields == {"headers"}
AttrFields == StringFields \cup Int64Fields \cup BoolFields \cup MapFields

\* objType: the framework type of each field of destination_attributes.
AttrType(k) ==
    IF k \in StringFields THEN "String"
    ELSE IF k \in Int64Fields THEN "Int64"
    ELSE IF k \in BoolFields THEN "Bool"
    ELSE "Map"

NullOf(t) ==
    CASE t = "String" -> StringNull
      [] t = "Int64" -> Int64Null
      [] t = "Bool" -> BoolNull
      [] OTHER -> MapNull

\* JSON values of the wire format, and Go values of a map[string]interface{}.
JString(s) == [t |-> "string", v |-> s]
\* A float64 of the wire, held in tenths so that it can carry a fraction.
JNumber(n) == [t |-> "number", tenths |-> 10 * n]
JFloat(tenths) == [t |-> "number", tenths |-> tenths]
JBool(b) == [t |-> "bool", v |-> b]
JObject(m) == [t |-> "object", v |-> m]
GoInt64(i) == [t |-> "int64", v |-> i]

\* convertDestinationAttributes: every attribute of the object becomes a Go
\* value by its framework type; a null or unknown value becomes the zero value.
convertDestinationAttributes(obj) ==
    LET attributes == IF obj.null THEN EmptyMap ELSE obj.v
        conv(x) == CASE x.t = "String" -> JString(ValueString(x))
                     [] x.t = "Int64" -> GoInt64(ValueInt64(x))
                     [] x.t = "Bool" -> JBool(ValueBool(x))
                     [] x.t = "Map" -> JObject(x.v)
                     [] OTHER -> [t |-> "unsupported", v |-> ""]
        bad == {k \in DOMAIN attributes : conv(attributes[k]).t = "unsupported"}
    IN  IF bad # {}
        THEN [ok |-> FALSE, err |-> "unsupported attribute type", m |-> EmptyMap]
        ELSE [ok |-> TRUE, err |-> "",
              m |-> [k \in DOMAIN attributes |-> conv(attributes[k])]]

\* destAttrs[k].(T): the type assertion of the extractors.
IsA(m, k, t) == k \in DOMAIN m /\ m[k].t = t

\* The first field, in the order the extractor asserts them, that is absent or
\* of another Go type; "" when every assertion succeeds.
FirstBad(m, checks) ==
    LET bad == {i \in 1..Len(checks) : ~IsA(m, checks[i][1], checks[i][2])}
    IN  IF bad = {} THEN ""
        ELSE checks[CHOOSE i \in bad : \A j \in bad : i <= j][1]

WebhookChecks == << <<"url", "string">>, <<"compression", "string">>,
                    <<"headers", "object">>, <<"max_retry", "int64">>,
                    <<"post_timeout_sec", "int64">>, <<"retry_interval_sec", "int64">> >>
S3Checks == << <<"endpoint", "string">>, <<"access_key", "string">>,
               <<"secret_key", "string">>, <<"bucket", "string">>,
               <<"object_prefix", "string">>, <<"file_compression", "string">>,
               <<"file_type", "string">>, <<"max_retry", "int64">>,
               <<"retry_interval_sec", "int64">>, <<"use_ssl", "bool">> >>
PostgresChecks == << <<"username", "string">>, <<"password", "string">>,
                     <<"host", "string">>, <<"port", "int64">>,
                     <<"database", "string">>, <<"access_key", "string">>,
                     <<"sslmode", "string">>, <<"table_name", "string">>,
                     <<"max_retry", "int64">>, <<"retry_interval_sec", "int64">> >>

\* float32(int64): exact for the magnitudes the model uses.
Float32(i) == i

\* The wire value of a Go value of the extracted struct.
ToJSON(x) == IF x.t = "int64" THEN JNumber(Float32(x.v)) ELSE x

Extract(m, checks) ==
    LET bad == FirstBad(m, checks)
    IN  IF bad # ""
        THEN [ok |-> FALSE, err |-> bad, m |-> EmptyMap]
        ELSE [ok |-> TRUE, err |-> "",
              m |-> [k \in {checks[i][1] : i \in 1..Len(checks)} |-> ToJSON(m[k])]]

\* getWebhookAttributes: the six asserted fields, and SecurityToken: "".
getWebhookAttributes(m) ==
    LET e == Extract(m, WebhookChecks)
    IN  IF ~e.ok THEN e
        ELSE [e EXCEPT !.m = [k \in DOMAIN e.m \cup {"security_token"} |->
                                IF k = "security_token" THEN JString("") ELSE e.m[k]]]

getS3Attributes(m) == Extract(m, S3Checks)

getPostgresAttributes(m) == Extract(m, PostgresChecks)

\* The destination switch of Create and Update: the union for the plan's
\* destination, or the error that ends the handler.
\* A variant of the switch in which a destination outside the three variants
\* is encoded as a webhook.
EncodeUnion_DefaultWebhook(destination, obj) ==
    LET c == convertDestinationAttributes(obj)
    IN  IF ~c.ok THEN c
        ELSE CASE destination = "s3" -> getS3Attributes(c.m)
               [] destination = "postgres" -> getPostgresAttributes(c.m)
               [] OTHER -> getWebhookAttributes(c.m)

EncodeUnion(destination, obj) ==
    LET c == convertDestinationAttributes(obj)
    IN  IF ~c.ok THEN c
        ELSE CASE destination = "webhook" -> getWebhookAttributes(c.m)
               [] destination = "s3" -> getS3Attributes(c.m)
               [] destination = "postgres" -> getPostgresAttributes(c.m)
               [] OTHER -> [ok |-> FALSE, err |-> "Unsupported destination type",
                            m |-> EmptyMap]

\* The summary of the diagnostic a failed encoding adds: the default branch of
\* the destination switch has a summary of its own.
EncodeErrorSummary(u) ==
    IF u.err = "Unsupported destination type" THEN u.err
    ELSE "Error converting destination_attributes"

\* Whether a JSON value is of the Go type the framework type t is built from.
JSONFits(x, t) ==
    CASE t = "String" -> x.t = "string"
      [] t = "Int64" -> x.t = "number"
      [] t = "Bool" -> x.t = "bool"
      [] OTHER -> x.t = "object"

EmptyAsNull == {"access_key", "secret_key", "bucket", "region", "file_compression", "sslmode"}

\* int64(val) of a float64: the fraction is dropped, toward zero.
Int64OfFloat(x) ==
    IF x.tenths >= 0 THEN x.tenths \div 10 ELSE 0 - ((0 - x.tenths) \div 10)

\* A variant of the decoding that carries only the fields of the payload.
updateDestinationAttributesFromAPI_OmitAbsent(destAttrs) ==
    [ok |-> TRUE,
     obj |-> ObjectValue([k \in DOMAIN destAttrs \cap AttrFields |->
                 IF destAttrs[k].t = "string" THEN StringValue(destAttrs[k].v)
                 ELSE IF destAttrs[k].t = "number" THEN Int64Value(Int64OfFloat(destAttrs[k]))
                 ELSE IF destAttrs[k].t = "bool" THEN BoolValue(destAttrs[k].v)
                 ELSE MapValue(destAttrs[k].v)])]

\* updateDestinationAttributesFromAPI: every schema field starts null and is
\* overwritten by the payload's value of that key; a key outside the schema or a
\* value of another type makes types.ObjectValue fail.
updateDestinationAttributesFromAPI(destAttrs) ==
    LET dec(k) ==
            LET x == destAttrs[k]
            IN  CASE x.t = "string" ->
                       IF x.v = "" /\ k \in EmptyAsNull THEN StringNull ELSE StringValue(x.v)
                  [] x.t = "number" -> Int64Value(Int64OfFloat(x))
                  [] x.t = "bool" -> BoolValue(x.v)
                  [] OTHER -> MapValue(x.v)
        okKeys == \A k \in DOMAIN destAttrs :
                      k \in AttrFields /\ JSONFits(destAttrs[k], AttrType(k))
    IN  IF ~okKeys
        THEN [ok |-> FALSE, obj |-> ObjectNull]
        ELSE [ok |-> TRUE,
              obj |-> ObjectValue([k \in AttrFields |->
                          IF k \in DOMAIN destAttrs THEN dec(k) ELSE NullOf(AttrType(k))])]

----------------------------------------------------------------------------
(* The stream resource: desired values, the remote stream, the handlers.   *)

Statuses == {"active", "paused", "terminated", "completed"}
Destinations == {"webhook", "s3", "function", "postgres"}
Names == {"n1", "n2"}
StreamId == "s1"
\* A field the remote's JSON does not carry.
NoField == "<absent>"

AllNull == [k \in AttrFields |-> NullOf(AttrType(k))]
WebhookObj ==
    ObjectValue([AllNull EXCEPT !["url"] = StringValue("https://hook"),
                                !["compression"] = StringValue("none"),
                                !["max_retry"] = Int64Value(3),
                                !["retry_interval_sec"] = Int64Value(1),
                                !["post_timeout_sec"] = Int64Value(10)])
PostgresObj ==
    ObjectValue([AllNull EXCEPT !["username"] = StringValue("u"),
                                !["password"] = StringValue("p"),
                                !["host"] = StringValue("db"),
                                !["port"] = Int64Value(5432),
                                !["database"] = StringValue("d"),
                                !["table_name"] = StringValue("t"),
                                !["sslmode"] = StringValue("disable"),
                                !["max_retry"] = Int64Value(3),
                                !["retry_interval_sec"] = Int64Value(1)])
SampleAttrs == {WebhookObj, PostgresObj}

\* The plans of a stream Update: id is computed (unknown in the plan, so the
\* handler falls back to the prior state's id); the other fields are required.
StreamPlans ==
    [id : {StringNull}, name : {StringValue(n) : n \in Names},
     status : {StringValue(s) : s \in Statuses},
     destination : {StringValue(d) : d \in Destinations},
     destination_attributes : SampleAttrs]

\* The remote stream as the service holds it: the JSON it answers a fetch with.
RemoteStreams ==
    [exists : BOOLEAN, id : {StreamId}, name : {"n1"},
     status : Statuses \cup {NoField}, destination : {"webhook"},
     destination_attributes : {getWebhookAttributes(convertDestinationAttributes(WebhookObj).m).m}]

\* The outcomes the service can give a call on the stream: a call on a stream
\* that does not exist is answered 404, a call on one that exists is carried
\* out (a success code) or refused (500); a call may also fail in transport.
\* Only a call answered with a success code has changed the remote stream.
StreamOutcomes(rem, success) ==
    {TransportError, Response(500)}
        \cup (IF rem.exists THEN {Response(c) : c \in success} ELSE {Response(404)})

\* readStreamFromAPI: the error, or the model decoded from the response body.
readStreamFromAPI(r, body) ==
    IF r.err THEN [ok |-> FALSE, err |-> "error reading stream"]
    ELSE IF r.code = 404 THEN [ok |-> FALSE, err |-> "stream not found"]
    ELSE IF r.code # 200 THEN [ok |-> FALSE, err |-> "API returned status code"]
    ELSE LET d == updateDestinationAttributesFromAPI(body.destination_attributes)
             str(x) == IF x = NoField THEN StringNull ELSE StringValue(x)
         IN  IF ~d.ok THEN [ok |-> FALSE, err |-> "error updating destination_attributes"]
             ELSE [ok |-> TRUE, err |-> "",
                   data |-> [id |-> str(body.id), name |-> str(body.name),
                             status |-> str(body.status),
                             destination |-> str(body.destination),
                             destination_attributes |-> d.obj]]

\* One entry of the history of remote calls: the call, its outcome, the remote
\* stream's status when it was dispatched, and the body of a fetch's response.
NoBody == [exists |-> FALSE]
NoArg == [label |-> "", id |-> 0]
Call(kind, r, rem, body) ==
    [kind |-> kind, resp |-> r, pre |-> rem.status, body |-> body, arg |-> NoArg]

NoState == [id |-> StringNull]
NoLoc == [wasActive |-> FALSE, streamId |-> "", union |-> EmptyMap,
          currentTags |-> EmptyMap, addIdx |-> 1, visited |-> {}, round |-> 1,
          prev |-> NoState, messages |-> <<>>]
NoPlan == [id |-> StringNull]

\* streamId: plan.Id when it is known, else state.Id (the stream's id).
StreamIdOf(p) == IF ~p.id.null THEN p.id.v ELSE StreamId

\* A variant that brackets every stream that is not paused already.
NeedsPause_NotPaused(currentStatus) == currentStatus # "paused"

\* if currentStatus == "active": the stream is paused before the update.
NeedsPause(currentStatus) == currentStatus = "active"

\* Variants that test the transport error only and not the status code.
PauseOk_ErrOnly(r) == ~r.err
UpdateOk_ErrOnly(r) == ~r.err

\* A variant of the core update's check that also refuses when the stream was
\* active at the time of the call.
UpdateOk_DetectActive(r) == ~r.err /\ r.code = 200 /\ remote.status # "active"

\* Pause and Activate are accepted with 200 or 201, the core update with 200.
PauseOk(r) == ~r.err /\ r.code \in {200, 201}
UpdateOk(r) == ~r.err /\ r.code = 200
ActivateOk(r) == ~r.err /\ r.code \in {200, 201}

\* A variant in which the handler reports the error and tries the step again.
Abort_Retry(summary) ==
    /\ diags' = Append(diags, summary)
    /\ pc' = pc
    /\ UNCHANGED <<tfstate, written>>

\* The handler returns with an error: no further step, no state written.
Abort(summary) ==
    /\ diags' = Append(diags, summary)
    /\ pc' = "done"
    /\ UNCHANGED <<tfstate, written>>

\* Update is invoked with a plan; it reads it and determines the stream id.
SU_Begin ==
    /\ op = "idle"
    /\ \E p \in StreamPlans :
        /\ plan' = p
        /\ loc' = [NoLoc EXCEPT !.streamId = StreamIdOf(p)]
    /\ op' = "StreamUpdate"
    /\ pc' = "fetch"
    /\ UNCHANGED <<remote, epRemote, tfstate, written, diags, calls, interfered, govVars>>

\* Check current stream status: readStreamFromAPI.
SU_Fetch ==
    /\ op = "StreamUpdate" /\ pc = "fetch"
    /\ \E r \in StreamOutcomes(remote, {200}) :
        LET body == IF r = Response(200) THEN remote ELSE NoBody
            got == readStreamFromAPI(r, body)
        IN  /\ calls' = Append(calls, Call("fetch", r, remote, body))
            /\ IF ~got.ok
               THEN Abort("Reading Stream Status") /\ UNCHANGED loc
               ELSE /\ loc' = [loc EXCEPT !.wasActive = NeedsPause(ValueString(got.data.status))]
                    /\ pc' = IF NeedsPause(ValueString(got.data.status)) THEN "pause" ELSE "encode"
                    /\ UNCHANGED <<tfstate, written, diags>>
    /\ UNCHANGED <<op, plan, remote, epRemote, interfered, govVars>>

\* PauseStreamWithResponse.
SU_Pause ==
    /\ op = "StreamUpdate" /\ pc = "pause"
    /\ \E r \in StreamOutcomes(remote, {200, 201}) :
        /\ calls' = Append(calls, Call("pause", r, remote, NoBody))
        /\ remote' = IF r \in {Response(200), Response(201)}
                     THEN [remote EXCEPT !.status = "paused"] ELSE remote
        /\ IF PauseOk(r)
           THEN pc' = "encode" /\ UNCHANGED <<tfstate, written, diags>>
           ELSE Abort("Pausing Stream")
    /\ UNCHANGED <<op, plan, epRemote, loc, interfered, govVars>>

\* Prepare the request body: the destination_attributes union.
\* A variant in which a failed encoding is reported and the handler goes on
\* to the core update.
SU_Encode_GoOn ==
    /\ op = "StreamUpdate" /\ pc = "encode"
    /\ LET u == IF plan.destination_attributes.null
                THEN [ok |-> TRUE, err |-> "", m |-> EmptyMap]
                ELSE EncodeUnion(ValueString(plan.destination), plan.destination_attributes)
       IN  /\ loc' = [loc EXCEPT !.union = u.m]
           /\ pc' = "update"
           /\ diags' = IF u.ok THEN diags ELSE Append(diags, EncodeErrorSummary(u))
           /\ UNCHANGED <<tfstate, written>>
    /\ UNCHANGED <<op, plan, remote, epRemote, calls, interfered, govVars>>

SU_Encode ==
    /\ op = "StreamUpdate" /\ pc = "encode"
    /\ LET u == IF plan.destination_attributes.null
                THEN [ok |-> TRUE, err |-> "", m |-> EmptyMap]
                ELSE EncodeUnion(ValueString(plan.destination), plan.destination_attributes)
       IN  IF u.ok
           THEN /\ loc' = [loc EXCEPT !.union = u.m]
                /\ pc' = "update"
                /\ UNCHANGED <<tfstate, written, diags>>
           ELSE Abort(EncodeErrorSummary(u)) /\ UNCHANGED loc
    /\ UNCHANGED <<op, plan, remote, epRemote, calls, interfered, govVars>>

\* UpdateWithResponse: name, destination, status and the union are sent.
SU_Update ==
    /\ op = "StreamUpdate" /\ pc = "update"
    /\ \E r \in StreamOutcomes(remote, {200}) :
        /\ calls' = Append(calls, Call("update", r, remote, NoBody))
        /\ remote' = IF r = Response(200)
                     THEN [remote EXCEPT !.name = ValueString(plan.name),
                                         !.status = ValueString(plan.status),
                                         !.destination = ValueString(plan.destination),
                                         !.destination_attributes =
                                             IF plan.destination_attributes.null
                                             THEN @ ELSE loc.union]
                     ELSE remote
        /\ IF UpdateOk(r)
           THEN /\ pc' = IF loc.wasActive THEN "activate" ELSE "refetch"
                /\ UNCHANGED <<tfstate, written, diags>>
           ELSE Abort("Updating Stream")
    /\ UNCHANGED <<op, plan, epRemote, loc, interfered, govVars>>

\* If stream was active before update, reactivate it: ActivateStreamWithResponse.
SU_Activate ==
    /\ op = "StreamUpdate" /\ pc = "activate"
    /\ \E r \in StreamOutcomes(remote, {200, 201}) :
        /\ calls' = Append(calls, Call("activate", r, remote, NoBody))
        /\ remote' = IF r \in {Response(200), Response(201)}
                     THEN [remote EXCEPT !.status = "active"] ELSE remote
        /\ IF ActivateOk(r)
           THEN pc' = "refetch" /\ UNCHANGED <<tfstate, written, diags>>
           ELSE Abort("Activating Stream")
    /\ UNCHANGED <<op, plan, epRemote, loc, interfered, govVars>>

\* A variant that keeps the plan's status instead of the status read back.
UpdatedState_KeepPlanStatus(p, fullStreamData) ==
    [id |-> fullStreamData.id, name |-> fullStreamData.name,
     status |-> p.status, destination |-> fullStreamData.destination,
     destination_attributes |-> fullStreamData.destination_attributes]

\* The state Update saves: every field of the plan is overwritten by the
\* field of the model read back.
UpdatedState(p, fullStreamData) ==
    [id |-> fullStreamData.id, name |-> fullStreamData.name,
     status |-> fullStreamData.status, destination |-> fullStreamData.destination,
     destination_attributes |-> fullStreamData.destination_attributes]

\* Read full stream data from API, update the plan with it, save the state.
SU_Refetch ==
    /\ op = "StreamUpdate" /\ pc = "refetch"
    /\ \E r \in StreamOutcomes(remote, {200}) :
        LET body == IF r = Response(200) THEN remote ELSE NoBody
            got == readStreamFromAPI(r, body)
        IN  /\ calls' = Append(calls, Call("fetch", r, remote, body))
            /\ IF ~got.ok
               THEN Abort("Error reading stream after update")
               ELSE /\ tfstate' = UpdatedState(plan, got.data)
                    /\ written' = TRUE
                    /\ pc' = "done"
                    /\ UNCHANGED diags
    /\ UNCHANGED <<op, plan, remote, epRemote, loc, interfered, govVars>>

\* Another actor changes the remote stream's status while a stream Update runs.
ExternalMutate ==
    /\ op = "StreamUpdate" /\ pc # "done"
    /\ interfered < MaxInterference
    /\ remote.exists
    /\ \E s \in Statuses \ {remote.status} :
        remote' = [remote EXCEPT !.status = s]
    /\ interfered' = interfered + 1
    /\ UNCHANGED <<op, pc, plan, epRemote, loc, tfstate, written, diags, calls, govVars>>

----------------------------------------------------------------------------
(* The endpoint resource: label and tags.                                  *)

\* Tag labels; "b" and "B" differ in case only.
Labels == {"a", "b", "c", "B"}
EndpointId == "e1"
\* The longest declared tag list.
MaxTags == 2

\* Sequences of distinct labels (tags is a set attribute read into a list).
TagLists ==
    {<<>>} \cup {q \in UNION {[1..n -> Labels] : n \in 1..MaxTags} :
                    \A i, j \in DOMAIN q : i # j => q[i] # q[j]}

EndpointPlans ==
    [id : {StringValue(EndpointId)}, label : {StringNull, StringValue("l1")},
     tags : TagLists]

\* The remote endpoint: its label and its tags, each a label with the id the
\* service gave it; nextId is the id the service gives the next tag.
RemoteEndpoints ==
    [exists : BOOLEAN, label : {"", "l1"},
     tags : SUBSET {[label |-> "b", id |-> 1], [label |-> "c", id |-> 2]},
     nextId : {3}]

EndpointOutcomes(rem) ==
    {TransportError, Response(500)}
        \cup (IF rem.exists THEN {Response(200)} ELSE {Response(404)})

EpCall(kind, r, arg) ==
    [kind |-> kind, resp |-> r, pre |-> "", body |-> NoBody, arg |-> arg]

\* A variant that tests the transport error only and not the status code.
EndpointOk_ErrOnly(r) == ~r.err

\* Every endpoint call is accepted with 200 only.
EndpointOk(r) == ~r.err /\ r.code = 200

\* A variant that ignores the tags of the endpoint fetched.
CurrentTagsOf_Empty(tags) == EmptyMap

\* A variant that takes the tags of the prior state for the current tags.
CurrentTagsOf_FromPrior(tags) ==
    [l \in {loc.prev.tags[j] : j \in DOMAIN loc.prev.tags} |->
        IF \E t \in tags : t.label = l THEN (CHOOSE t \in tags : t.label = l).id ELSE 0]

\* currentTags: label -> tag id, from the tags of the endpoint fetched.
CurrentTagsOf(tags) ==
    [l \in {t.label : t \in tags} |-> (CHOOSE t \in tags : t.label = l).id]

\* A variant that adds every plan tag, whether currentTags has it or not.
NextAdd_Every(planTags, currentTags, i) ==
    IF i <= Len(planTags) THEN i ELSE 0

\* Add new tags: the next plan tag, from index i on, that currentTags lacks
\* (0 when there is none).
NextAdd(planTags, currentTags, i) ==
    LET todo == {j \in i..Len(planTags) : planTags[j] \notin DOMAIN currentTags}
    IN  IF todo = {} THEN 0 ELSE CHOOSE j \in todo : \A k \in todo : j <= k

\* A variant that removes no tag.
ToRemove_None(planTags, currentTags) == {}

\* Remove deleted tags: the labels of currentTags that the plan lacks.
ToRemove(planTags, currentTags) ==
    {l \in DOMAIN currentTags : l \notin {planTags[j] : j \in DOMAIN planTags}}

\* A variant with the two loops in the other order: removals, then additions.
EU_Continue_RemoveFirst(l) ==
    /\ loc' = l
    /\ UNCHANGED diags
    /\ IF ToRemove(plan.tags, l.currentTags) \ l.visited # {}
       THEN pc' = "tags_del" /\ UNCHANGED <<tfstate, written>>
       ELSE IF NextAdd(plan.tags, l.currentTags, l.addIdx) # 0
       THEN pc' = "tags_add" /\ UNCHANGED <<tfstate, written>>
       ELSE pc' = "done" /\ tfstate' = plan /\ written' = TRUE

\* What follows a successful step of the tag loops: the next CreateTag, else
\* the next DeleteTag, else the state is saved and the handler returns.
EU_Continue(l) ==
    /\ loc' = l
    /\ UNCHANGED diags
    /\ IF NextAdd(plan.tags, l.currentTags, l.addIdx) # 0
       THEN pc' = "tags_add" /\ UNCHANGED <<tfstate, written>>
       ELSE IF ToRemove(plan.tags, l.currentTags) \ l.visited # {}
       THEN pc' = "tags_del" /\ UNCHANGED <<tfstate, written>>
       ELSE pc' = "done" /\ tfstate' = plan /\ written' = TRUE

\* The prior states of an endpoint Update (req.State, which the handler does
\* not read): tags that may or may not still be on the remote endpoint.
EndpointUpdatePriors ==
    [id : {StringValue(EndpointId)}, label : {StringNull}, tags : {<<>>, <<"b">>}]

EU_Begin ==
    /\ op = "idle"
    /\ plan' \in EndpointPlans
    /\ \E prior \in EndpointUpdatePriors : loc' = [NoLoc EXCEPT !.prev = prior]
    /\ op' = "EndpointUpdate"
    /\ pc' = "patch"
    /\ UNCHANGED <<remote, epRemote, tfstate, written, diags, calls, interfered, govVars>>

\* The same Update is invoked again after it succeeded.
EU_Again ==
    /\ op = "EndpointUpdate" /\ pc = "done" /\ written
    /\ loc.round = 1
    /\ loc' = [NoLoc EXCEPT !.round = 2, !.prev = tfstate]
    /\ pc' = "patch"
    /\ tfstate' = NoState /\ written' = FALSE
    /\ calls' = <<>>
    /\ UNCHANGED <<op, plan, remote, epRemote, diags, interfered, govVars>>

\* UpdateEndpointWithResponse: the label.
EU_Patch ==
    /\ op = "EndpointUpdate" /\ pc = "patch"
    /\ \E r \in EndpointOutcomes(epRemote) :
        /\ calls' = Append(calls, EpCall("update", r, NoArg))
        /\ epRemote' = IF r = Response(200)
                       THEN [epRemote EXCEPT !.label = ValueString(plan.label)]
                       ELSE epRemote
        /\ IF EndpointOk(r)
           THEN pc' = "show" /\ UNCHANGED <<tfstate, written, diags>>
           ELSE Abort("Patching Endpoint")
    /\ UNCHANGED <<op, plan, remote, loc, interfered, govVars>>

\* Fetch current endpoint state to get tag IDs: ShowEndpointWithResponse.
EU_Show ==
    /\ op = "EndpointUpdate" /\ pc = "show"
    /\ \E r \in EndpointOutcomes(epRemote) :
        /\ calls' = Append(calls, [EpCall("fetch", r, NoArg) EXCEPT
                                    !.body = IF r = Response(200)
                                             THEN [exists |-> TRUE, tags |-> epRemote.tags]
                                             ELSE NoBody])
        /\ IF EndpointOk(r)
           THEN EU_Continue([loc EXCEPT !.currentTags = CurrentTagsOf(epRemote.tags)])
           ELSE Abort("Reading Endpoint for Tags") /\ UNCHANGED loc
    /\ UNCHANGED <<op, plan, remote, epRemote, interfered, govVars>>

\* CreateTagWithResponse for the next plan tag that currentTags lacks.
EU_AddTag ==
    /\ op = "EndpointUpdate" /\ pc = "tags_add"
    /\ LET i == NextAdd(plan.tags, loc.currentTags, loc.addIdx)
           tag == plan.tags[i]
       IN  \E r \in EndpointOutcomes(epRemote) :
            /\ calls' = Append(calls, EpCall("create_tag", r, [label |-> tag, id |-> 0]))
            /\ epRemote' = IF r = Response(200)
                           THEN [epRemote EXCEPT
                                   !.tags = @ \cup {[label |-> tag, id |-> epRemote.nextId]},
                                   !.nextId = @ + 1]
                           ELSE epRemote
            /\ IF EndpointOk(r)
               THEN EU_Continue([loc EXCEPT !.addIdx = i + 1])
               ELSE Abort("Creating Tag") /\ UNCHANGED loc
    /\ UNCHANGED <<op, plan, remote, interfered, govVars>>

\* DeleteTagWithResponse for a label of currentTags (in the map's iteration
\* order, which is any order) that the plan lacks.
EU_DelTag ==
    /\ op = "EndpointUpdate" /\ pc = "tags_del"
    /\ \E label \in ToRemove(plan.tags, loc.currentTags) \ loc.visited :
       \E r \in EndpointOutcomes(epRemote) :
        LET id == loc.currentTags[label]
        IN  /\ calls' = Append(calls, EpCall("delete_tag", r, [label |-> label, id |-> id]))
            /\ epRemote' = IF r = Response(200)
                           THEN [epRemote EXCEPT !.tags = {t \in @ : t.id # id}]
                           ELSE epRemote
            /\ IF EndpointOk(r)
               THEN EU_Continue([loc EXCEPT !.visited = @ \cup {label}])
               ELSE Abort("Deleting Tag") /\ UNCHANGED loc
    /\ UNCHANGED <<op, plan, remote, interfered, govVars>>

----------------------------------------------------------------------------
(* Create of an endpoint and of a stream.                                   *)

\* The plans of an endpoint Create: the id is not known yet.
EndpointCreatePlans == {[p EXCEPT !.id = StringNull] : p \in EndpointPlans}

\* A variant that sends the label update whatever the label is.
LabelDeclared_Always(l) == TRUE

\* l := data.Label.ValueString(); if l != "".
LabelDeclared(l) == l # ""

\* A variant of the tag loop that skips the first declared tag.
NextCreateTag_SkipFirst(tags, i) ==
    IF i = 1 /\ Len(tags) >= 2 THEN 2 ELSE IF i = 1 \/ i > Len(tags) THEN 0 ELSE i

\* for _, tag := range tags: the index of the next tag, 0 after the last.
NextCreateTag(tags, i) == IF i <= Len(tags) THEN i ELSE 0

\* A variant that archives the endpoint when a tag cannot be created.
CreateUnwind_Archive == <<EpCall("archive", Response(200), NoArg)>>

\* The calls Create makes to undo the endpoint when a later step fails: none.
CreateUnwind == <<>>

\* After the label step and after each tag created: the next CreateTag, else
\* the state is saved and the handler returns.
\* BuildRequestErrorMessage(status, body): the status the message shows, with
\* the place in the call history of the call it is reported for.
BuildRequestErrorMessage(about, r) == [about |-> about, status |-> r.code]

\* The local state with the message of a request error added.
WithMessage(l, m) == [l EXCEPT !.messages = Append(@, m)]

EC_Continue(l) ==
    /\ loc' = l
    /\ IF NextCreateTag(plan.tags, l.addIdx) # 0
       THEN pc' = "tags_add" /\ UNCHANGED <<tfstate, written>>
       ELSE pc' = "done" /\ tfstate' = plan /\ written' = TRUE

EC_Begin ==
    /\ op = "idle"
    /\ ~epRemote.exists
    /\ plan' \in EndpointCreatePlans
    /\ loc' = NoLoc
    /\ op' = "EndpointCreate"
    /\ pc' = "create"
    /\ UNCHANGED <<remote, epRemote, tfstate, written, diags, calls, interfered, govVars>>

\* CreateEndpointWithResponse; on 200 data.Id is the id the service gave.
EC_Create ==
    /\ op = "EndpointCreate" /\ pc = "create"
    /\ \E r \in {TransportError, Response(500), Response(200)} :
        /\ calls' = Append(calls, EpCall("create", r, NoArg))
        /\ IF EndpointOk(r)
           THEN /\ epRemote' = [exists |-> TRUE, label |-> "", tags |-> {}, nextId |-> 3]
                /\ plan' = [plan EXCEPT !.id = StringValue(EndpointId)]
                /\ pc' = IF LabelDeclared(ValueString(plan.label)) THEN "label"
                         ELSE IF NextCreateTag(plan.tags, 1) # 0 THEN "tags_add" ELSE "done"
                /\ IF ~LabelDeclared(ValueString(plan.label)) /\ NextCreateTag(plan.tags, 1) = 0
                   THEN tfstate' = plan' /\ written' = TRUE
                   ELSE UNCHANGED <<tfstate, written>>
                /\ UNCHANGED diags
           ELSE Abort("Creating Endpoint") /\ UNCHANGED <<epRemote, plan>>
        /\ loc' = IF ~r.err /\ r.code # 200
                  THEN WithMessage(loc, BuildRequestErrorMessage(Len(calls) + 1, r))
                  ELSE loc
    /\ UNCHANGED <<op, remote, interfered, govVars>>

\* UpdateEndpointWithResponse with the label. A transport error is added to
\* the diagnostics without a return, and the nil response is then
\* dereferenced: the handler panics. A status other than 200 is added to the
\* diagnostics, with a message built from endpointResp, the response of the
\* create call, and the handler goes on.
EC_Label ==
    /\ op = "EndpointCreate" /\ pc = "label"
    /\ \E r \in EndpointOutcomes(epRemote) :
        /\ calls' = Append(calls, EpCall("update", r, NoArg))
        /\ epRemote' = IF r = Response(200)
                       THEN [epRemote EXCEPT !.label = ValueString(plan.label)]
                       ELSE epRemote
        /\ IF r.err
           THEN /\ diags' = Append(diags, "Patching Endpoint Label")
                /\ pc' = "panic"
                /\ UNCHANGED <<loc, tfstate, written>>
           ELSE /\ diags' = IF r.code # 200 THEN Append(diags, "Patching Endpoint Label")
                            ELSE diags
                /\ EC_Continue(IF r.code # 200
                               THEN WithMessage(loc, BuildRequestErrorMessage(
                                        Len(calls) + 1, calls[1].resp))
                               ELSE loc)
    /\ UNCHANGED <<op, plan, remote, interfered, govVars>>

\* CreateTagWithResponse for the next declared tag.
EC_AddTag ==
    /\ op = "EndpointCreate" /\ pc = "tags_add"
    /\ LET i == NextCreateTag(plan.tags, loc.addIdx)
           tag == plan.tags[i]
       IN  \E r \in EndpointOutcomes(epRemote) :
            IF EndpointOk(r)
            THEN /\ calls' = Append(calls, EpCall("create_tag", r, [label |-> tag, id |-> 0]))
                 /\ epRemote' = [epRemote EXCEPT
                                   !.tags = @ \cup {[label |-> tag, id |-> epRemote.nextId]},
                                   !.nextId = @ + 1]
                 /\ UNCHANGED diags
                 /\ EC_Continue([loc EXCEPT !.addIdx = i + 1])
            ELSE /\ calls' = Append(calls, EpCall("create_tag", r, [label |-> tag, id |-> 0]))
                              \o CreateUnwind
                 /\ epRemote' = IF CreateUnwind = <<>> THEN epRemote
                                ELSE [epRemote EXCEPT !.exists = FALSE]
                 /\ Abort("Creating Tag")
                 /\ loc' = IF ~r.err
                           THEN WithMessage(loc, BuildRequestErrorMessage(Len(calls) + 1, r))
                           ELSE loc
    /\ UNCHANGED <<op, plan, remote, interfered, govVars>>

\* The plans of a stream Create.
StreamCreatePlans == StreamPlans

SC_Begin ==
    /\ op = "idle"
    /\ ~remote.exists
    /\ plan' \in StreamCreatePlans
    /\ loc' = NoLoc
    /\ op' = "StreamCreate"
    /\ pc' = "encode"
    /\ UNCHANGED <<remote, epRemote, tfstate, written, diags, calls, interfered, govVars>>

\* convertDestinationAttributes, then the union for the plan's destination.
SC_Encode ==
    /\ op = "StreamCreate" /\ pc = "encode"
    /\ LET u == EncodeUnion(ValueString(plan.destination), plan.destination_attributes)
       IN  IF u.ok
           THEN /\ loc' = [loc EXCEPT !.union = u.m]
                /\ pc' = "create"
                /\ UNCHANGED <<tfstate, written, diags>>
           ELSE Abort(EncodeErrorSummary(u)) /\ UNCHANGED loc
    /\ UNCHANGED <<op, plan, remote, epRemote, calls, interfered, govVars>>

\* CreateWithResponse, accepted with 201 only; then the id is read from the
\* response body, which may lack it.
SC_Create ==
    /\ op = "StreamCreate" /\ pc = "create"
    /\ \E r \in {TransportError, Response(500), Response(201)} :
       \E id \in {StreamId, NoField} :
        /\ r # Response(201) => id = NoField
        /\ calls' = Append(calls, Call("create", r, remote, [exists |-> ~r.err, id |-> id]))
        /\ remote' = IF r = Response(201)
                     THEN [exists |-> TRUE, id |-> StreamId,
                           name |-> ValueString(plan.name),
                           status |-> ValueString(plan.status),
                           destination |-> ValueString(plan.destination),
                           destination_attributes |-> loc.union]
                     ELSE remote
        /\ IF r # Response(201)
           THEN Abort("Creating Stream") /\ UNCHANGED <<plan, loc>>
           ELSE IF id = NoField
           THEN Abort("Error reading ID") /\ UNCHANGED <<plan, loc>>
           ELSE /\ plan' = [plan EXCEPT !.id = StringValue(id)]
                /\ loc' = [loc EXCEPT !.streamId = id]
                /\ pc' = "fetch"
                /\ UNCHANGED <<tfstate, written, diags>>
    /\ UNCHANGED <<op, epRemote, interfered, govVars>>

\* The state Create saves: the id of the create response, the other fields
\* from the stream read back.
CreatedState(data, fullStreamData) ==
    [id |-> data.id, name |-> fullStreamData.name,
     status |-> fullStreamData.status, destination |-> fullStreamData.destination,
     destination_attributes |-> fullStreamData.destination_attributes]

\* Read full stream data from API to get computed fields, save the state.
SC_Fetch ==
    /\ op = "StreamCreate" /\ pc = "fetch"
    /\ \E r \in StreamOutcomes(remote, {200}) :
        LET body == IF r = Response(200) THEN remote ELSE NoBody
            got == readStreamFromAPI(r, body)
        IN  /\ calls' = Append(calls, Call("fetch", r, remote, body))
            /\ IF ~got.ok
               THEN Abort("Error reading stream")
               ELSE /\ tfstate' = CreatedState(plan, got.data)
                    /\ written' = TRUE
                    /\ pc' = "done"
                    /\ UNCHANGED diags
    /\ UNCHANGED <<op, plan, remote, epRemote, loc, interfered, govVars>>

----------------------------------------------------------------------------
(* Read and Delete of a stream and of an endpoint.                          *)

\* resp.State.RemoveResource: the state without the resource.
RemovedState == [id |-> StringNull, removed |-> TRUE]

\* The prior states of a stream: after an import, which knows the id only,
\* and after an apply.
StreamPriorStates ==
    {[id |-> StringValue(StreamId), name |-> StringNull, status |-> StringNull,
      destination |-> StringNull, destination_attributes |-> ObjectNull],
     [id |-> StringValue(StreamId), name |-> StringValue("n2"),
      status |-> StringValue("paused"), destination |-> StringValue("postgres"),
      destination_attributes |-> PostgresObj]}

\* strings.Contains(err.Error(), "stream not found").
IsStreamNotFound(err) == err = "stream not found"

\* A variant of Read that keeps the prior name.
StreamReadState_KeepName(data, streamData) ==
    [id |-> data.id, name |-> data.name,
     status |-> streamData.status, destination |-> streamData.destination,
     destination_attributes |-> streamData.destination_attributes]

\* Update state with data from API: every field but the id is overwritten.
StreamReadState(data, streamData) ==
    [id |-> data.id, name |-> streamData.name,
     status |-> streamData.status, destination |-> streamData.destination,
     destination_attributes |-> streamData.destination_attributes]

SR_Begin ==
    /\ op = "idle"
    /\ plan' \in StreamPriorStates
    /\ tfstate' = plan'
    /\ loc' = NoLoc
    /\ op' = "StreamRead"
    /\ pc' = "read"
    /\ UNCHANGED <<remote, epRemote, written, diags, calls, interfered, govVars>>

\* StreamResource.Read: readStreamFromAPI, then RemoveResource, an error, or
\* the state.
SR_Read ==
    /\ op = "StreamRead" /\ pc = "read"
    /\ \E r \in StreamOutcomes(remote, {200}) :
        LET body == IF r = Response(200) THEN remote ELSE NoBody
            got == readStreamFromAPI(r, body)
        IN  /\ calls' = Append(calls, Call("fetch", r, remote, body))
            /\ IF got.ok
               THEN /\ tfstate' = StreamReadState(plan, got.data)
                    /\ written' = TRUE
                    /\ pc' = "done"
                    /\ UNCHANGED diags
               ELSE IF IsStreamNotFound(got.err)
               THEN /\ tfstate' = RemovedState
                    /\ pc' = "done"
                    /\ UNCHANGED <<written, diags>>
               ELSE Abort("Reading Stream")
    /\ UNCHANGED <<op, plan, remote, epRemote, loc, interfered, govVars>>

\* A list value of the framework: null, or its elements.
ListNull == [null |-> TRUE, elems |-> <<>>]
ListValueFrom(q) == [null |-> FALSE, elems |-> q]

\* The prior states of an endpoint: after an import and after an apply.
EndpointPriorStates ==
    {[id |-> StringValue(EndpointId), label |-> StringNull, tags |-> ListNull],
     [id |-> StringValue(EndpointId), label |-> StringValue("l2"),
      tags |-> ListValueFrom(<<"a">>)]}

\* The tags of the endpoint as the service lists them: in the order of their ids.
RECURSIVE TagList(_)
TagList(tags) ==
    IF tags = {} THEN <<>>
    ELSE LET t == CHOOSE x \in tags : \A y \in tags : x.id <= y.id
         IN  <<t>> \o TagList(tags \ {t})

\* The body of a 200 answer to ShowEndpoint.
EndpointBody(rem) == [exists |-> TRUE, label |-> rem.label, tags |-> TagList(rem.tags)]

\* A variant of Read that keeps the prior tags.
EndpointReadState_KeepTags(data, endpoint) ==
    [id |-> data.id,
     label |-> IF endpoint.label # "" THEN StringValue(endpoint.label) ELSE StringNull,
     tags |-> data.tags]

\* EndpointResource.Read: label is null unless the remote label is non-empty,
\* tags is null unless the remote has tags, else their labels.
EndpointReadState(data, endpoint) ==
    [id |-> data.id,
     label |-> IF endpoint.label # "" THEN StringValue(endpoint.label) ELSE StringNull,
     tags |-> IF Len(endpoint.tags) > 0
              THEN ListValueFrom([i \in 1..Len(endpoint.tags) |-> endpoint.tags[i].label])
              ELSE ListNull]

ER_Begin ==
    /\ op = "idle"
    /\ plan' \in EndpointPriorStates
    /\ tfstate' = plan'
    /\ loc' = NoLoc
    /\ op' = "EndpointRead"
    /\ pc' = "read"
    /\ UNCHANGED <<remote, epRemote, written, diags, calls, interfered, govVars>>

\* EndpointResource.Read: ShowEndpointWithResponse; any failure, 404 included,
\* is an error.
ER_Read ==
    /\ op = "EndpointRead" /\ pc = "read"
    /\ \E r \in EndpointOutcomes(epRemote) :
        LET body == IF r = Response(200) THEN EndpointBody(epRemote) ELSE NoBody
        IN  /\ calls' = Append(calls, [EpCall("fetch", r, NoArg) EXCEPT !.body = body])
            /\ IF EndpointOk(r)
               THEN /\ tfstate' = EndpointReadState(plan, body)
                    /\ written' = TRUE
                    /\ pc' = "done"
                    /\ UNCHANGED diags
               ELSE Abort("Reading Endpoint")
    /\ UNCHANGED <<op, plan, remote, epRemote, loc, interfered, govVars>>

\* Read is invoked again, with the state the first Read returned.
R_Again ==
    /\ op \in {"StreamRead", "EndpointRead"} /\ pc = "done" /\ written
    /\ loc.round = 1
    /\ plan' = tfstate
    /\ loc' = [NoLoc EXCEPT !.round = 2, !.prev = tfstate]
    /\ pc' = "read"
    /\ written' = FALSE
    /\ calls' = <<>>
    /\ UNCHANGED <<op, remote, epRemote, tfstate, diags, interfered, govVars>>

\* A variant that takes a 404 for a deletion done.
DeleteOk_NotFoundToo(r) == ~r.err /\ r.code \in {200, 404}

\* Delete accepts 200 only.
DeleteOk(r) == ~r.err /\ r.code = 200

SD_Begin ==
    /\ op = "idle"
    /\ plan' \in StreamPriorStates
    /\ loc' = NoLoc
    /\ op' = "StreamDelete"
    /\ pc' = "remove"
    /\ UNCHANGED <<remote, epRemote, tfstate, written, diags, calls, interfered, govVars>>

\* StreamResource.Delete: RemoveWithResponse.
SD_Remove ==
    /\ op = "StreamDelete" /\ pc = "remove"
    /\ \E r \in StreamOutcomes(remote, {200}) :
        /\ calls' = Append(calls, Call("remove", r, remote, NoBody))
        /\ remote' = IF r = Response(200) THEN [remote EXCEPT !.exists = FALSE] ELSE remote
        /\ IF DeleteOk(r)
           THEN pc' = "done" /\ UNCHANGED <<tfstate, written, diags>>
           ELSE Abort("Deleting Stream")
    /\ UNCHANGED <<op, plan, epRemote, loc, interfered, govVars>>

ED_Begin ==
    /\ op = "idle"
    /\ plan' \in EndpointPriorStates
    /\ loc' = NoLoc
    /\ op' = "EndpointDelete"
    /\ pc' = "archive"
    /\ UNCHANGED <<remote, epRemote, tfstate, written, diags, calls, interfered, govVars>>

\* EndpointResource.Delete: ArchiveEndpointWithResponse.
ED_Archive ==
    /\ op = "EndpointDelete" /\ pc = "archive"
    /\ \E r \in EndpointOutcomes(epRemote) :
        /\ calls' = Append(calls, EpCall("archive", r, NoArg))
        /\ epRemote' = IF r = Response(200) THEN [epRemote EXCEPT !.exists = FALSE]
                       ELSE epRemote
        /\ IF DeleteOk(r)
           THEN pc' = "done" /\ UNCHANGED <<tfstate, written, diags>>
           ELSE Abort("Deleting Endpoint")
    /\ UNCHANGED <<op, plan, remote, loc, interfered, govVars>>

----------------------------------------------------------------------------

(* The throttled transport and the retrying client around it.              *)
(* Time is counted in ticks of one token interval, so the limiter of        *)
(* rate.NewLimiter(rate.Limit(tokens), tokens) gains one token per tick up  *)
(* to its burst.                                                            *)

Calls == 1..NumCalls
Min(a, b) == IF a <= b THEN a ELSE b

\* A variant that gives the limiter a burst one above the configured rate.
LimiterBurst_PlusOne(tokens) == tokens + 1

\* rate.NewLimiter(rate.Limit(tokens), tokens): the burst is the tokens argument.
LimiterBurst(tokens) == tokens

\* A variant of reserveN that loses the update of the token count.
reserveN_LostUpdate(l, t) ==
    [lim |-> [l EXCEPT !.last = t, !.lastEvent = t], timeToAct |-> t]

\* A new limiter holds its full burst at its first use.
NewLimiter(tokens) ==
    [burst |-> LimiterBurst(tokens), tokens |-> LimiterBurst(tokens),
     last |-> 0, lastEvent |-> 0]

\* Limiter.reserveN(t, 1): the tokens gained since the last update, capped at
\* the burst, less the one reserved; a negative count is the wait, in ticks.
reserveN(l, t) ==
    LET tokens == Min(l.burst, l.tokens + (t - l.last)) - 1
        waitDuration == IF tokens < 0 THEN 0 - tokens ELSE 0
    IN  [lim |-> [l EXCEPT !.tokens = tokens, !.last = t, !.lastEvent = t + waitDuration],
         timeToAct |-> t + waitDuration]

\* Reservation.CancelAt(t) of a reservation of one token due at timeToAct: the
\* token is given back unless later reservations were built on it.
CancelAt(l, timeToAct, t) ==
    LET restoreTokens == 1 - (l.lastEvent - timeToAct)
        tokens == Min(l.burst, Min(l.burst, l.tokens + (t - l.last)) + restoreTokens)
        prevEvent == timeToAct - 1
    IN  IF timeToAct < t \/ restoreTokens <= 0 THEN l
        ELSE [l EXCEPT !.tokens = tokens, !.last = t,
                       !.lastEvent = IF timeToAct = l.lastEvent /\ prevEvent >= t
                                     THEN prevEvent ELSE @]

\* Errors, by the stage that produced them.
NoError == [src |-> "", err |-> ""]
LimiterError(e) == [src |-> "limiter", err |-> e]
PolicyError(e) == [src |-> "retry", err |-> e]
TransportFailure == [src |-> "transport", err |-> "connection"]
GiveUp == [src |-> "retry", err |-> "giving up"]

\* Limiter.Wait up to the reservation: a burst below one fails at once, then a
\* cancelled context fails, else a token is reserved, to act after `delay`.
WaitStart(l, cx, t) ==
    IF 1 > l.burst THEN [err |-> LimiterError("RateExceeded"), lim |-> l, delay |-> 0]
    ELSE IF cx = "cancelled" THEN [err |-> LimiterError("Cancelled"), lim |-> l, delay |-> 0]
    ELSE LET r == reserveN(l, t)
         IN  [err |-> NoError, lim |-> r.lim, delay |-> r.timeToAct - t]

\* A variant that passes the request on whatever Wait returned.
RoundTripAdmits_Always(err) == TRUE

\* ThrottledTransport.RoundTrip: the wrapped transport is invoked only when
\* Wait returned no error.
RoundTripAdmits(err) == err = NoError

\* A variant that reports the last attempt's error first.
FinalError_DoErrFirst(prepareErr, checkErr, doErr) ==
    IF doErr # NoError THEN doErr
    ELSE IF prepareErr # NoError THEN prepareErr
    ELSE IF checkErr # NoError THEN checkErr
    ELSE GiveUp

\* The error the retrying client returns when it stops without success: the
\* error of PrepareRetry, else of the retry policy, else of the last attempt.
FinalError(prepareErr, checkErr, doErr) ==
    IF prepareErr # NoError THEN prepareErr
    ELSE IF checkErr # NoError THEN checkErr
    ELSE IF doErr # NoError THEN doErr
    ELSE GiveUp

\* The outcomes of one attempt on the network.
AttemptOutcomes == {"ok", "status5xx", "error"}
DoErr(o) == IF o = "error" THEN TransportFailure ELSE NoError

\* The call returns: its result is recorded, and whether it ended on a failed
\* acquisition.
Return(c, res, acqFailed) ==
    /\ cpc' = [cpc EXCEPT ![c] = "done"]
    /\ result' = [result EXCEPT ![c] = res]
    /\ hist' = IF acqFailed
               THEN [hist EXCEPT ![c].failed = TRUE, ![c].attempts = attempts[c]]
               ELSE hist

\* ThrottledTransport.RoundTrip: Wait, then the wrapped transport.
RoundTrip(c) ==
    /\ cpc[c] = "idle"
    /\ LET w == WaitStart(lim, ctx[c], now)
       IN  /\ lim' = w.lim
           /\ IF ~RoundTripAdmits(w.err)
              THEN /\ Return(c, w.err, TRUE)
                   /\ UNCHANGED <<wake, acquired, invoked>>
              ELSE IF w.delay = 0
              THEN /\ cpc' = [cpc EXCEPT ![c] = "attempt"]
                   /\ acquired' = [acquired EXCEPT ![c] = IF w.err = NoError THEN @ + 1 ELSE @]
                   /\ invoked' = [invoked EXCEPT ![c] = TRUE]
                   /\ UNCHANGED <<wake, result, hist>>
              ELSE /\ cpc' = [cpc EXCEPT ![c] = "wait_first"]
                   /\ wake' = [wake EXCEPT ![c] = now + w.delay]
                   /\ UNCHANGED <<acquired, invoked, result, hist>>
    /\ UNCHANGED <<capacity, now, ctx, attempts, lastResp, engineVars>>

\* A variant in which the timer may win over a context that was done first.
SelectTimer_Either(cx) == TRUE

\* A variant in which the timer never wakes the sleeping call.
SelectTimer_Never(cx) == FALSE

\* The select at the end of Wait, entered with the timer pending: the sleeping
\* call is woken by whichever of the timer and the context's Done comes
\* first, so the timer wakes it only while the context is live.
SelectTimer(cx) == cx = "live"

\* The reservation's time has come: Wait returns nil.
WaitDone(c) ==
    /\ cpc[c] \in {"wait_first", "wait_retry"}
    /\ now >= wake[c]
    /\ SelectTimer(ctx[c])
    /\ acquired' = [acquired EXCEPT ![c] = @ + 1]
    /\ cpc' = [cpc EXCEPT ![c] = "attempt"]
    /\ invoked' = [invoked EXCEPT ![c] = TRUE]
    /\ wake' = [wake EXCEPT ![c] = 0]
    /\ UNCHANGED <<capacity, now, lim, ctx, attempts, lastResp, result, hist, engineVars>>

\* The context is done while Wait sleeps: the reservation is cancelled and
\* Wait returns the context's error.
WaitCancelled(c) ==
    /\ cpc[c] \in {"wait_first", "wait_retry"}
    /\ ctx[c] = "cancelled"
    /\ lim' = CancelAt(lim, wake[c], now)
    /\ wake' = [wake EXCEPT ![c] = 0]
    /\ Return(c, IF cpc[c] = "wait_first" THEN LimiterError("Cancelled")
                 ELSE FinalError(LimiterError("Cancelled"), NoError, DoErr(lastResp[c])), TRUE)
    /\ UNCHANGED <<capacity, now, ctx, acquired, invoked, attempts, lastResp, engineVars>>

\* One attempt of the retrying client: the request is sent, then the retry
\* policy decides: a done context stops with its error, an error or a 5xx
\* status asks for a retry, which is made while retries remain.
Attempt(c) ==
    /\ cpc[c] = "attempt"
    /\ attempts' = [attempts EXCEPT ![c] = @ + 1]
    /\ \E o \in AttemptOutcomes :
        /\ lastResp' = [lastResp EXCEPT ![c] = o]
        /\ IF ctx[c] = "cancelled"
           THEN Return(c, FinalError(NoError, PolicyError("Cancelled"), DoErr(o)), FALSE)
           ELSE IF o = "ok"
           THEN Return(c, NoError, FALSE)
           ELSE IF RetryMax - attempts[c] <= 0
           THEN Return(c, FinalError(NoError, NoError, DoErr(o)), FALSE)
           ELSE /\ cpc' = [cpc EXCEPT ![c] = "backoff"]
                /\ UNCHANGED <<result, hist>>
    /\ UNCHANGED <<capacity, now, lim, ctx, wake, acquired, invoked, engineVars>>

\* The context is done during the backoff: the client returns its error.
BackoffCancelled(c) ==
    /\ cpc[c] = "backoff"
    /\ ctx[c] = "cancelled"
    /\ Return(c, PolicyError("Cancelled"), FALSE)
    /\ UNCHANGED <<capacity, now, lim, ctx, wake, acquired, invoked, attempts, lastResp, engineVars>>

\* A variant of PrepareRetry that does not wait for a token.
PrepareRetry_NoWait(c) ==
    /\ cpc[c] = "backoff"
    /\ cpc' = [cpc EXCEPT ![c] = "attempt"]
    /\ UNCHANGED <<capacity, now, lim, ctx, wake, acquired, invoked, attempts, lastResp,
                   result, hist, engineVars>>

\* The backoff is over: PrepareRetry waits on the limiter before the retry; its
\* error ends the call.
PrepareRetry(c) ==
    /\ cpc[c] = "backoff"
    /\ LET w == WaitStart(lim, ctx[c], now)
       IN  /\ lim' = w.lim
           /\ IF w.err # NoError
              THEN /\ Return(c, FinalError(w.err, NoError, DoErr(lastResp[c])), TRUE)
                   /\ UNCHANGED <<wake, acquired>>
              ELSE IF w.delay = 0
              THEN /\ cpc' = [cpc EXCEPT ![c] = "attempt"]
                   /\ acquired' = [acquired EXCEPT ![c] = @ + 1]
                   /\ UNCHANGED <<wake, result, hist>>
              ELSE /\ cpc' = [cpc EXCEPT ![c] = "wait_retry"]
                   /\ wake' = [wake EXCEPT ![c] = now + w.delay]
                   /\ UNCHANGED <<acquired, result, hist>>
    /\ UNCHANGED <<capacity, now, ctx, invoked, attempts, lastResp, engineVars>>

\* The caller cancels the call's context.
Cancel(c) ==
    /\ cpc[c] # "done"
    /\ ctx[c] = "live"
    /\ ctx' = [ctx EXCEPT ![c] = "cancelled"]
    /\ hist' = [hist EXCEPT ![c].midwait = IF cpc[c] \in {"wait_first", "wait_retry"}
                                          THEN cpc[c] ELSE @]
    /\ UNCHANGED <<capacity, now, lim, cpc, wake, acquired, invoked, attempts, lastResp,
                   result, engineVars>>

\* Time passes.
Tick ==
    /\ now < MaxTime
    /\ now' = now + 1
    /\ UNCHANGED <<capacity, lim, cpc, ctx, wake, acquired, invoked, attempts, lastResp,
                   result, hist, engineVars>>

\* The client's variables while the resource handlers are modelled.
GovParked ==
    /\ capacity = 0 /\ now = 0 /\ lim = NewLimiter(0)
    /\ cpc = <<>> /\ ctx = <<>> /\ wake = <<>> /\ acquired = <<>> /\ invoked = <<>>
    /\ attempts = <<>> /\ lastResp = <<>> /\ result = <<>> /\ hist = <<>>

\* NewRetryableThrottledClient(tokens), and calls not yet made.
GovInit ==
    /\ capacity \in 0..MaxCapacity
    /\ now = 0
    /\ lim = NewLimiter(capacity)
    /\ cpc = [c \in Calls |-> "idle"]
    /\ ctx \in [Calls -> {"live", "cancelled"}]
    /\ wake = [c \in Calls |-> 0]
    /\ acquired = [c \in Calls |-> 0]
    /\ invoked = [c \in Calls |-> FALSE]
    /\ attempts = [c \in Calls |-> 0]
    /\ lastResp = [c \in Calls |-> "none"]
    /\ result = [c \in Calls |-> NoError]
    /\ hist = [c \in Calls |-> [failed |-> FALSE, attempts |-> 0, midwait |-> ""]]

\* The resource handlers' variables while the client is modelled.
EngineParked ==
    /\ op = "idle" /\ pc = "idle"
    /\ plan = NoPlan
    /\ remote = [exists |-> FALSE]
    /\ epRemote = [exists |-> FALSE]
    /\ loc = NoLoc
    /\ tfstate = NoState
    /\ written = FALSE
    /\ diags = <<>>
    /\ calls = <<>>
    /\ interfered = 0

EngineInit ==
    /\ op = "idle" /\ pc = "idle"
    /\ plan = NoPlan
    /\ remote \in RemoteStreams
    /\ epRemote \in RemoteEndpoints
    /\ loc = NoLoc
    /\ tfstate = NoState
    /\ written = FALSE
    /\ diags = <<>>
    /\ calls = <<>>
    /\ interfered = 0

Init == EngineInit /\ GovParked

Next ==
    \/ SU_Begin
    \/ SU_Fetch
    \/ SU_Pause
    \/ SU_Encode
    \/ SU_Update
    \/ SU_Activate
    \/ SU_Refetch
    \/ ExternalMutate
    \/ EU_Begin
    \/ EU_Again
    \/ EU_Patch
    \/ EU_Show
    \/ EU_AddTag
    \/ EU_DelTag
    \/ EC_Begin
    \/ EC_Create
    \/ EC_Label
    \/ EC_AddTag
    \/ SC_Begin
    \/ SC_Encode
    \/ SC_Create
    \/ SC_Fetch
    \/ SR_Begin
    \/ SR_Read
    \/ ER_Begin
    \/ ER_Read
    \/ R_Again
    \/ SD_Begin
    \/ SD_Remove
    \/ ED_Begin
    \/ ED_Archive

Spec == Init /\ [][Next]_vars

GovernorInit == EngineParked /\ GovInit

GovernorNext ==
    \/ \E c \in Calls : RoundTrip(c)
    \/ \E c \in Calls : WaitDone(c)
    \/ \E c \in Calls : WaitCancelled(c)
    \/ \E c \in Calls : Attempt(c)
    \/ \E c \in Calls : BackoffCancelled(c)
    \/ \E c \in Calls : PrepareRetry(c)
    \/ \E c \in Calls : Cancel(c)
    \/ Tick

SpecGovernor == GovernorInit /\ [][GovernorNext]_vars

\* Time passes, and goes on passing while a call sleeps on a reservation that
\* is not due yet: the refill rate is positive, so every reservation comes due.
TickWhileWaiting ==
    /\ \/ now < MaxTime
       \/ \E c \in Calls : cpc[c] \in {"wait_first", "wait_retry"} /\ wake[c] > now
    /\ now' = now + 1
    /\ UNCHANGED <<capacity, lim, cpc, ctx, wake, acquired, invoked, attempts, lastResp,
                   result, hist, engineVars>>

GovernorLiveNext ==
    \/ \E c \in Calls : RoundTrip(c)
    \/ \E c \in Calls : WaitDone(c)
    \/ \E c \in Calls : WaitCancelled(c)
    \/ \E c \in Calls : Attempt(c)
    \/ \E c \in Calls : BackoffCancelled(c)
    \/ \E c \in Calls : PrepareRetry(c)
    \/ \E c \in Calls : Cancel(c)
    \/ TickWhileWaiting

\* Fair scheduling: the clock runs, the runtime wakes a goroutine whose timer
\* has fired, and a goroutine that holds its token sends its request.
GovernorFairness ==
    /\ WF_vars(TickWhileWaiting)
    /\ \A c \in Calls : WF_vars(WaitDone(c))
    /\ \A c \in Calls : WF_vars(Attempt(c))

SpecGovernorLive == GovernorInit /\ [][GovernorLiveNext]_vars /\ GovernorFairness

----------------------------------------------------------------------------
(* The codec of destination_attributes exercised end to end: Create and    *)
(* Update of streams whose declared attributes cover every variant, Read    *)
(* after Create, and Read of remote payloads of every shape.                *)

WebhookMinimal ==
    ObjectValue([AllNull EXCEPT !["url"] = StringValue("https://hook"),
                                !["compression"] = StringValue("none"),
                                !["max_retry"] = Int64Value(3),
                                !["retry_interval_sec"] = Int64Value(1)])
WebhookFull ==
    ObjectValue([WebhookObj.v EXCEPT !["headers"] = MapValue([k \in {"h"} |-> "v"])])
WebhookNoUrl ==
    ObjectValue([WebhookObj.v EXCEPT !["url"] = StringNull])
WebhookWithToken ==
    ObjectValue([WebhookFull.v EXCEPT !["security_token"] = StringValue("tok")])
WebhookAndPort ==
    ObjectValue([WebhookFull.v EXCEPT !["port"] = Int64Value(5432)])
S3Obj ==
    ObjectValue([AllNull EXCEPT !["endpoint"] = StringValue("s3.host"),
                                !["access_key"] = StringValue("ak"),
                                !["secret_key"] = StringValue("sk"),
                                !["bucket"] = StringValue("b"),
                                !["object_prefix"] = StringValue("p/"),
                                !["file_compression"] = StringValue("none"),
                                !["file_type"] = StringValue(".json"),
                                !["max_retry"] = Int64Value(3),
                                !["retry_interval_sec"] = Int64Value(1),
                                !["use_ssl"] = BoolValue(TRUE)])
CodecAttrs == {WebhookObj, WebhookMinimal, WebhookFull, WebhookNoUrl, WebhookWithToken,
               WebhookAndPort, S3Obj, PostgresObj}

\* The plans of the codec runs: every destination the validator accepts, with
\* every sample of declared attributes.
CodecPlans ==
    [id : {StringNull}, name : {StringValue("n1")}, status : {StringValue("active")},
     destination : {StringValue(d) : d \in Destinations},
     destination_attributes : CodecAttrs]

\* A JSON object with some of its members replaced or added.
Patch(m, n) == [k \in DOMAIN m \cup DOMAIN n |-> IF k \in DOMAIN n THEN n[k] ELSE m[k]]

WebhookWire == EncodeUnion("webhook", WebhookFull).m

\* The destination_attributes a fetch can carry: what the provider sends for
\* each variant, a webhook payload with the other variants' string fields
\* empty, one with fractional numbers, one with a member outside the schema,
\* and one with a member of another JSON type.
WirePayloads ==
    {WebhookWire,
     EncodeUnion("s3", S3Obj).m,
     EncodeUnion("postgres", PostgresObj).m,
     Patch(WebhookWire, [k \in EmptyAsNull \cup {"endpoint", "host"} |-> JString("")]),
     Patch(WebhookWire, [k \in {"max_retry", "port"} |->
                            IF k = "max_retry" THEN JFloat(35) ELSE JFloat(0 - 15)]),
     Patch(WebhookWire, [k \in {"extra"} |-> JString("x")]),
     Patch(WebhookWire, [k \in {"port"} |-> JString("5432")])}

\* The remote stream of the codec runs: none, or one with any of the payloads.
CodecRemotes ==
    [exists : BOOLEAN, id : {StreamId}, name : {"n1"}, status : {"active"},
     destination : {"webhook"}, destination_attributes : {WebhookWire}]
    \cup [exists : {TRUE}, id : {StreamId}, name : {"n1"}, status : {"active"},
          destination : {"webhook"}, destination_attributes : WirePayloads]

CodecInit ==
    /\ op = "idle" /\ pc = "idle"
    /\ plan = NoPlan
    /\ remote \in CodecRemotes
    /\ epRemote = [exists |-> FALSE]
    /\ loc = NoLoc
    /\ tfstate = NoState
    /\ written = FALSE
    /\ diags = <<>>
    /\ calls = <<>>
    /\ interfered = 0
    /\ GovParked

\* Create is invoked with one of the codec plans.
CC_Begin ==
    /\ op = "idle"
    /\ ~remote.exists
    /\ plan' \in CodecPlans
    /\ loc' = NoLoc
    /\ op' = "StreamCreate"
    /\ pc' = "encode"
    /\ UNCHANGED <<remote, epRemote, tfstate, written, diags, calls, interfered, govVars>>

\* Update is invoked with one of the codec plans.
CU_Begin ==
    /\ op = "idle"
    /\ \E p \in CodecPlans :
        /\ plan' = p
        /\ loc' = [NoLoc EXCEPT !.streamId = StreamIdOf(p)]
    /\ op' = "StreamUpdate"
    /\ pc' = "fetch"
    /\ UNCHANGED <<remote, epRemote, tfstate, written, diags, calls, interfered, govVars>>

\* Read is invoked after a successful Create, with the state Create saved;
\* loc.prev keeps what was declared, and round 0 marks the run.
SR_AfterCreate ==
    /\ op = "StreamCreate" /\ pc = "done" /\ written
    /\ op' = "StreamRead"
    /\ pc' = "read"
    /\ loc' = [NoLoc EXCEPT !.round = 0, !.prev = plan]
    /\ plan' = tfstate
    /\ written' = FALSE
    /\ calls' = <<>>
    /\ UNCHANGED <<remote, epRemote, tfstate, diags, interfered, govVars>>

CodecNext ==
    \/ CC_Begin
    \/ SC_Encode
    \/ SC_Create
    \/ SC_Fetch
    \/ SR_AfterCreate
    \/ SR_Begin
    \/ SR_Read
    \/ R_Again
    \/ CU_Begin
    \/ SU_Fetch
    \/ SU_Pause
    \/ SU_Encode
    \/ SU_Update
    \/ SU_Activate
    \/ SU_Refetch

SpecCodec == CodecInit /\ [][CodecNext]_vars

----------------------------------------------------------------------------
(* Validation at plan time: the integer range validator of the stream      *)
(* schema and the chain/network check of EndpointResource.ModifyPlan.       *)

\* A value of the configuration that is not known yet.
Int64Unknown == [t |-> "Int64", null |-> FALSE, unknown |-> TRUE, v |-> 0]
IsNull(x) == x.null
IsUnknown(x) == "unknown" \in DOMAIN x /\ x.unknown

\* The range validators the schema declares.
MaxRetryValidator == [min |-> 0, max |-> 100]
RetryIntervalSecValidator == [min |-> 1, max |-> 3600]
PostTimeoutSecValidator == [min |-> 1, max |-> 3600]
PortValidator == [min |-> 1, max |-> 65535]
Int64RangeValidators ==
    {MaxRetryValidator, RetryIntervalSecValidator, PostTimeoutSecValidator, PortValidator}

\* The configured integers tried: all of -2..102 and the neighbours of the
\* larger bounds.
Int64Samples == (0 - 2)..102 \cup 3599..3601 \cup 65534..65536
Int64Configs == {Int64Null, Int64Unknown} \cup {Int64Value(i) : i \in Int64Samples}

\* A variant whose upper bound is exclusive.
OutOfRange_MaxExclusive(v, value) == value < v.min \/ value >= v.max

\* value < v.min || value > v.max
OutOfRange(v, value) == value < v.min \/ value > v.max

\* Int64RangeValidator.ValidateInt64: the diagnostics it adds.
ValidateInt64(v, ConfigValue) ==
    IF IsNull(ConfigValue) \/ IsUnknown(ConfigValue) THEN <<>>
    ELSE IF OutOfRange(v, ValueInt64(ConfigValue)) THEN <<"Invalid value">>
    ELSE <<>>

\* The validator runs on one configured value.
V_ValidateInt64 ==
    /\ op = "idle"
    /\ \E v \in Int64RangeValidators : \E x \in Int64Configs :
        /\ plan' = [validator |-> v, ConfigValue |-> x]
        /\ diags' = ValidateInt64(v, x)
    /\ op' = "ValidateInt64"
    /\ pc' = "done"
    /\ UNCHANGED <<remote, epRemote, loc, tfstate, written, calls, interfered, govVars>>

\* The longest catalog of chains, and the longest list of networks of a chain.
MaxChains == 2
MaxNetworks == 2

\* Slugs as the catalog and the configuration spell them, and their lower case.
ChainSlugs == {"eth", "SOL"}
NetworkSlugs == {"mainnet", "Testnet"}
ToLower(str) ==
    CASE str = "SOL" -> "sol"
      [] str = "Sol" -> "sol"
      [] str = "ETH" -> "eth"
      [] str = "Testnet" -> "testnet"
      [] str = "MAINNET" -> "mainnet"
      [] OTHER -> str

\* strings.EqualFold on the slugs of the model.
EqualFold(a, b) == ToLower(a) = ToLower(b)

DistinctSeqs(S, n) ==
    {q \in UNION {[1..k -> S] : k \in 0..n} : \A i, j \in DOMAIN q : i # j => q[i] # q[j]}

\* r.chains: the catalog the provider was configured with.
Catalogs ==
    LET Chains == [slug : ChainSlugs, networks : DistinctSeqs(NetworkSlugs, MaxNetworks)]
    IN  UNION {[1..k -> Chains] : k \in 0..MaxChains}

\* The chain and network of the configuration.
EndpointConfigs ==
    [chain : {StringNull} \cup {StringValue(c) : c \in {"eth", "ETH", "sol", "btc"}},
     network : {StringNull} \cup {StringValue(n) : n \in {"mainnet", "MAINNET", "testnet", "devnet"}}]

\* The loop over the catalog from chain i on: whether it returned on a
\* matching network, and validNetworkSlugs as collected so far.
RECURSIVE ScanChains(_, _, _, _)
ScanChains(chains, i, data, validNetworkSlugs) ==
    IF i > Len(chains) THEN [returned |-> FALSE, validNetworkSlugs |-> validNetworkSlugs]
    ELSE IF ~EqualFold(chains[i].slug, ValueString(data.chain))
    THEN ScanChains(chains, i + 1, data, validNetworkSlugs)
    ELSE LET nets == chains[i].networks
             hits == {j \in 1..Len(nets) : EqualFold(nets[j], ValueString(data.network))}
             seen == IF hits = {} THEN Len(nets)
                     ELSE CHOOSE j \in hits : \A k \in hits : j <= k
             slugs == validNetworkSlugs \o [j \in 1..seen |-> ToLower(nets[j])]
         IN  IF hits # {} THEN [returned |-> TRUE, validNetworkSlugs |-> slugs]
             ELSE ScanChains(chains, i + 1, data, slugs)

\* EndpointResource.ModifyPlan: the diagnostics it adds.
ModifyPlan(planIsNull, chains, data) ==
    IF planIsNull THEN <<>>
    ELSE LET scan == ScanChains(chains, 1, data, <<>>)
         IN  IF scan.returned THEN <<>>
             ELSE IF Len(scan.validNetworkSlugs) = 0 THEN <<"Invalid Chain">>
             ELSE <<"Invalid Network">>

\* ModifyPlan runs on one configuration, with one catalog.
V_ModifyPlan ==
    /\ op = "idle"
    /\ \E planIsNull \in BOOLEAN : \E chains \in Catalogs : \E data \in EndpointConfigs :
        /\ plan' = [planIsNull |-> planIsNull, chains |-> chains, data |-> data]
        /\ diags' = ModifyPlan(planIsNull, chains, data)
    /\ op' = "ModifyPlan"
    /\ pc' = "done"
    /\ UNCHANGED <<remote, epRemote, loc, tfstate, written, calls, interfered, govVars>>

ValidateInit == EngineParked /\ GovParked

ValidateNext ==
    \/ V_ValidateInt64
    \/ V_ModifyPlan

SpecValidate == ValidateInit /\ [][ValidateNext]_vars

----------------------------------------------------------------------------
(* Properties of the resource handlers, stated on the history of calls.    *)

\* The positions in the history of the calls of one kind.
Idx(kind) == {i \in 1..Len(calls) : calls[i].kind = kind}
Kinds == [i \in 1..Len(calls) |-> calls[i].kind]

\* Whether the service answered a call with the status its caller expects.
Succeeded(c) ==
    /\ ~c.resp.err
    /\ IF c.kind \in {"pause", "activate"} THEN c.resp.code \in {200, 201}
       ELSE c.resp.code = 200

\* The initial fetch of a stream Update has returned, with this status.
Fetched == op = "StreamUpdate" /\ Len(calls) >= 1 /\ Succeeded(calls[1])
FetchedStatus == calls[1].body.status

\* C1: in stream Update, when the initial fetch returns status active, exactly
\* one Pause is issued, directly before the core update, and exactly one
\* Activate directly after the core update has succeeded; when it returns any
\* other status (or none), no Pause and no Activate is issued and the core
\* update is the call that follows the fetch.
C1_PauseBracket ==
    Fetched =>
        IF FetchedStatus = "active"
        THEN /\ Idx("pause") \subseteq {2}
             /\ Idx("update") \subseteq {3}
             /\ Idx("activate") \subseteq {4}
             /\ Idx("update") # {} => Idx("pause") = {2}
             /\ Idx("activate") # {} => Idx("update") = {3} /\ Succeeded(calls[3])
             /\ (Idx("update") = {3} /\ Succeeded(calls[3]) /\ pc \in {"refetch", "done"})
                    => Idx("activate") = {4}
        ELSE /\ Idx("pause") = {}
             /\ Idx("activate") = {}
             /\ Idx("update") \subseteq {2}

C1_Witness ==
    /\ Fetched /\ FetchedStatus = "active" /\ pc = "done" /\ written
    /\ Kinds = <<"fetch", "pause", "update", "activate", "fetch">>

\* C2: in stream Update, when Pause has succeeded and the core update then
\* fails, the handler has returned an error, has issued no Activate nor any
\* other call after the failed update, and (no other actor having changed the
\* stream) the remote stream is paused.
C2_LeftPaused ==
    \A i \in Idx("pause") :
        (op = "StreamUpdate" /\ Succeeded(calls[i]) /\ i + 1 \in Idx("update")
            /\ ~Succeeded(calls[i + 1]))
        => /\ pc = "done" /\ Len(diags) >= 1 /\ ~written
           /\ Idx("activate") = {}
           /\ Len(calls) = i + 1
           /\ interfered = 0 => remote.status = "paused"

C2_Witness ==
    /\ op = "StreamUpdate" /\ pc = "done" /\ interfered = 0
    /\ Kinds = <<"fetch", "pause", "update">>
    /\ Succeeded(calls[2]) /\ ~Succeeded(calls[3])
    /\ remote.status = "paused"

\* C3: in stream Update and endpoint Update, a remote call that fails is the
\* last call of the operation: the handler has returned an error and has
\* written no state.
C3_AbortOnFailure ==
    op \in {"StreamUpdate", "EndpointUpdate"} =>
        \A i \in 1..Len(calls) :
            ~Succeeded(calls[i]) =>
                /\ i = Len(calls)
                /\ pc = "done"
                /\ Len(diags) >= 1
                /\ ~written /\ tfstate = NoState

C3_Witness ==
    /\ op = "EndpointUpdate" /\ pc = "done"
    /\ Len(calls) = 4 /\ calls[3].kind = "create_tag" /\ Succeeded(calls[3])
    /\ calls[4].kind = "delete_tag" /\ ~Succeeded(calls[4])
    /\ ~written /\ Len(diags) = 1

\* C4: with no other actor changing the remote stream, the core update of a
\* stream Update is dispatched only while the remote stream is not active, and
\* after a successful Update of a stream fetched active the stream is active.
C4_UpdateWhileNotActive ==
    (op = "StreamUpdate" /\ interfered = 0) =>
        /\ \A i \in Idx("update") : calls[i].pre # "active"
        /\ (pc = "done" /\ written /\ FetchedStatus = "active") => remote.status = "active"

C4_Witness ==
    /\ op = "StreamUpdate" /\ interfered = 0 /\ pc = "done" /\ written
    /\ FetchedStatus = "active" /\ remote.status = "active"
    /\ calls[3].kind = "update" /\ calls[3].pre = "paused"

\* C5: after a successful stream Update whose desired status is active or
\* paused (no other actor changing the stream), the status of the state
\* returned is the desired status, whatever status the initial fetch returned.
C5_StatusAsDesired ==
    (op = "StreamUpdate" /\ pc = "done" /\ written /\ interfered = 0
        /\ plan.status.v \in {"active", "paused"})
    => tfstate.status = plan.status

\* C6: a successful stream Update ends with a fetch issued after every mutating
\* call, and the state it returns is the decoding of that fetch's response,
\* which is the remote stream as it is when Update returns.
C6_StateFromLastFetch ==
    (op = "StreamUpdate" /\ pc = "done" /\ written) =>
        LET n == Len(calls)
        IN  /\ calls[n].kind = "fetch" /\ Succeeded(calls[n]) /\ n >= 3
            /\ \A i \in Idx("pause") \cup Idx("update") \cup Idx("activate") : i < n
            /\ Idx("update") # {}
            /\ calls[n].body = remote
            /\ tfstate = readStreamFromAPI(calls[n].resp, calls[n].body).data

C6_Witness ==
    /\ op = "StreamUpdate" /\ pc = "done" /\ written
    /\ tfstate.status # plan.status
    /\ tfstate.status # readStreamFromAPI(calls[1].resp, calls[1].body).data.status
    /\ tfstate.name = plan.name
    /\ calls[1].body.name # plan.name.v


\* ---- the throttled transport ----

RECURSIVE SumOver(_, _)
SumOver(f, S) ==
    IF S = {} THEN 0
    ELSE LET c == CHOOSE x \in S : TRUE IN f[c] + SumOver(f, S \ {c})

Waiting == {c \in Calls : cpc[c] \in {"wait_first", "wait_retry"}}

\* C7: with capacity 0 every call through the throttled transport fails at
\* once with the rate-exceeded error: it never blocks, acquires no token, and
\* the wrapped transport is never invoked.
C7_ZeroCapacityFails ==
    capacity = 0 =>
        \A c \in Calls :
            /\ cpc[c] \in {"idle", "done"}
            /\ ~invoked[c] /\ attempts[c] = 0 /\ acquired[c] = 0
            /\ cpc[c] = "done" => result[c] = [src |-> "limiter", err |-> "RateExceeded"]

C7_Witness ==
    /\ capacity = 0
    /\ \E c \in Calls : cpc[c] = "done" /\ ctx[c] = "live"
    /\ \E c \in Calls : cpc[c] = "done" /\ ctx[c] = "cancelled"

\* C8: with capacity C >= 1 and no time elapsed, the acquisitions granted
\* never exceed C, nobody is kept waiting while fewer than C were granted, a
\* waiting acquisition cannot act before time passes, and every call whose
\* acquisition was granted reached the wrapped transport.
C8_BurstAdmitted ==
    (capacity >= 1 /\ now = 0 /\ \A c \in Calls : ctx[c] = "live") =>
        /\ SumOver(acquired, Calls) <= capacity
        /\ Waiting # {} => SumOver(acquired, Calls) = capacity
        /\ \A c \in Waiting : wake[c] > now
        /\ \A c \in Calls : (cpc[c] # "idle" /\ c \notin Waiting) => invoked[c]
        /\ \A c \in Calls : acquired[c] >= 1 => invoked[c]

C8_Witness ==
    /\ capacity = 2 /\ now = 0 /\ \A c \in Calls : ctx[c] = "live"
    /\ \A c \in Calls : invoked[c]
    /\ SumOver(acquired, Calls) = 2
    /\ Waiting # {}

\* C9: in the retrying throttled client every attempt, the first and each
\* retry, is preceded by a token acquisition of its own: a call has
\* dispatched no more attempts than it has acquired tokens, and is about to
\* dispatch one only when it holds a token no attempt has used.
C9_AttemptsWithinTokens ==
    \A c \in Calls :
        /\ attempts[c] <= acquired[c]
        /\ cpc[c] = "attempt" => attempts[c] + 1 = acquired[c]

C9_Witness ==
    \E c \in Calls : attempts[c] = RetryMax + 1 /\ acquired[c] = RetryMax + 1

\* C10: when a token acquisition of a call fails, on the first attempt or on
\* a retry, the call has returned, it dispatched no attempt after the
\* failure, and what it returned is the limiter's error, not the transport's.
C10_AcquisitionFailureEndsCall ==
    \A c \in Calls :
        hist[c].failed =>
            /\ cpc[c] = "done"
            /\ attempts[c] = hist[c].attempts
            /\ result[c].src = "limiter"

C10_Witness ==
    /\ \E c \in Calls : hist[c].failed /\ attempts[c] >= 1 /\ lastResp[c] = "error"
    /\ \E c \in Calls : hist[c].failed /\ attempts[c] = 0

C12_TokensConserved ==
    /\ lim.tokens <= capacity
    /\ SumOver(acquired, Calls) + Cardinality(Waiting) + lim.tokens <= capacity + lim.last
    /\ SumOver(acquired, Calls) <= capacity + now
    /\ now = 0 => SumOver(acquired, Calls) <= capacity

C12_Witness ==
    /\ capacity = 1 /\ now = MaxTime
    /\ SumOver(acquired, Calls) = capacity + now
    /\ \A c \in Calls : acquired[c] >= 1

\* ---- endpoint Update: the tags ----

\* The desired labels, the tag map fetched, and the tag calls issued so far.
Desired == {plan.tags[j] : j \in DOMAIN plan.tags}
TagsFetched == op = "EndpointUpdate" /\ \E i \in Idx("fetch") : Succeeded(calls[i])
Created == {calls[i].arg.label : i \in Idx("create_tag")}
Deleted == {calls[i].arg : i \in Idx("delete_tag")}
NoTagCall == Idx("create_tag") = {} /\ Idx("delete_tag") = {}

\* C13: in endpoint Update, CreateTag is called for the desired labels that
\* the fetched tag map lacks and for no other label, DeleteTag for the
\* entries of the fetched tag map whose label is not desired and for no
\* other, with that entry's remote id, each at most once and none before the
\* fetch; an Update that succeeds has made exactly these calls. Labels are
\* compared as strings ("B" is not "b").
C13_TagDiff ==
    op = "EndpointUpdate" =>
        LET cur == loc.currentTags
            toAdd == Desired \ DOMAIN cur
            toRemove == {[label |-> l, id |-> cur[l]] : l \in DOMAIN cur \ Desired}
        IN  /\ ~TagsFetched => NoTagCall
            /\ Created \subseteq toAdd
            /\ Deleted \subseteq toRemove
            /\ Cardinality(Idx("create_tag")) = Cardinality(Created)
            /\ Cardinality(Idx("delete_tag")) = Cardinality(Deleted)
            /\ (pc = "done" /\ written) => Created = toAdd /\ Deleted = toRemove

C13_Witness ==
    /\ op = "EndpointUpdate" /\ pc = "done" /\ written
    /\ Desired = {"a", "B"}
    /\ DOMAIN loc.currentTags = {"b", "c"}
    /\ Created = {"a", "B"}
    /\ Deleted = {[label |-> "b", id |-> 1], [label |-> "c", id |-> 2]}

\* C14: the labels added together with the fetched labels that are kept are
\* the desired labels, and after a successful endpoint Update the labels of
\* the remote endpoint's tags are the desired labels.
C14_RemoteTagsAsDesired ==
    (op = "EndpointUpdate" /\ pc = "done" /\ written) =>
        /\ Created \cup (DOMAIN loc.currentTags \ {d.label : d \in Deleted}) = Desired
        /\ {t.label : t \in epRemote.tags} = Desired

C14_Witness ==
    /\ op = "EndpointUpdate" /\ pc = "done" /\ written
    /\ plan.tags = <<"b", "a">>
    /\ DOMAIN loc.currentTags = {"b", "c"}
    /\ {t.label : t \in epRemote.tags} = {"a", "b"}

\* C15: when the desired labels are the labels of the fetched tag map,
\* endpoint Update makes no CreateTag and no DeleteTag call and succeeds right
\* after the fetch; the same Update invoked again after it succeeded makes no
\* tag call.
C15_NoTagCallWhenEqual ==
    /\ (TagsFetched /\ Desired = DOMAIN loc.currentTags) =>
           NoTagCall /\ pc = "done" /\ written
    /\ (op = "EndpointUpdate" /\ loc.round = 2) => NoTagCall

C15_Witness ==
    /\ op = "EndpointUpdate" /\ loc.round = 2 /\ pc = "done" /\ written
    /\ Desired = {"a", "b"}
    /\ DOMAIN loc.currentTags = {"a", "b"}

\* C16: within one endpoint Update no CreateTag call follows a DeleteTag
\* call, and when a CreateTag call has failed no DeleteTag call was made and
\* every tag fetched is still on the remote endpoint.
C16_AddBeforeRemove ==
    op = "EndpointUpdate" =>
        /\ \A i \in Idx("delete_tag") : \A j \in Idx("create_tag") : j < i
        /\ (\E j \in Idx("create_tag") : ~Succeeded(calls[j])) =>
               /\ Idx("delete_tag") = {}
               /\ \A l \in DOMAIN loc.currentTags :
                      [label |-> l, id |-> loc.currentTags[l]] \in epRemote.tags

C16_Witness ==
    /\ op = "EndpointUpdate" /\ pc = "done"
    /\ Len(calls) = 4
    /\ calls[3].kind = "create_tag" /\ Succeeded(calls[3])
    /\ calls[4].kind = "create_tag" /\ ~Succeeded(calls[4])
    /\ DOMAIN loc.currentTags \ Desired # {}

\* ---- Create ----

\* The core create call of the running Create has succeeded.
EndpointCreated ==
    op = "EndpointCreate" /\ \E i \in Idx("create") : calls[i].resp = Response(200)
StreamCreated ==
    op = "StreamCreate" /\ \E i \in Idx("create") : calls[i].resp = Response(201)
IsCreateTag(c) == c.kind = "create_tag"
TagCallLabels ==
    LET ts == SelectSeq(calls, IsCreateTag) IN [i \in 1..Len(ts) |-> ts[i].arg.label]

\* C17: once the core create call has succeeded, a Create that has ended,
\* with or without an error, has written the remote id to the state.
C17_IdCommitted ==
    /\ (EndpointCreated /\ pc \in {"done", "panic"}) =>
           written /\ tfstate.id = StringValue(EndpointId)
    /\ (StreamCreated /\ pc = "done") =>
           written /\ tfstate.id = StringValue(StreamId)

C19_OneTagCallPerLabel ==
    op = "EndpointCreate" =>
        /\ (pc = "done" /\ written) => TagCallLabels = plan.tags
        /\ \A j \in Idx("create_tag") :
               \E i \in Idx("create") : i < j /\ calls[i].resp = Response(200)
        /\ Idx("delete_tag") = {}
        /\ plan.tags = <<>> => Idx("create_tag") = {}

C19_Witness ==
    /\ op = "EndpointCreate" /\ pc = "done" /\ written
    /\ Len(plan.tags) = MaxTags
    /\ Len(SelectSeq(calls, IsCreateTag)) = MaxTags
    /\ diags = <<>>

\* C20: endpoint Create sends the label update only after the core create
\* succeeded and only for a declared, non-empty label; a label update
\* answered with a status other than 200 puts an error in the diagnostics,
\* and the tags are still created and the state still written.
C20_LabelBestEffort ==
    op = "EndpointCreate" =>
        /\ \A j \in Idx("update") :
               /\ ~plan.label.null /\ plan.label.v # ""
               /\ j = 2 /\ calls[1].kind = "create" /\ calls[1].resp = Response(200)
        /\ (\E j \in Idx("update") : ~calls[j].resp.err /\ calls[j].resp.code # 200) =>
               /\ Len(diags) >= 1
               /\ pc \in {"tags_add", "done"}
               /\ (pc = "done" /\ \A i \in Idx("create_tag") : calls[i].resp = Response(200)) =>
                      written /\ TagCallLabels = plan.tags

C20_Witness ==
    /\ op = "EndpointCreate" /\ pc = "done" /\ written
    /\ Len(calls) = 4
    /\ calls[2].kind = "update" /\ calls[2].resp = Response(500)
    /\ Len(plan.tags) = 2 /\ TagCallLabels = plan.tags
    /\ tfstate.id = StringValue(EndpointId)
    /\ Len(diags) = 1

\* ---- Read and Delete ----

Reads == {"StreamRead", "EndpointRead"}
Deletes == {"StreamDelete", "EndpointDelete"}

\* C21: for the stream and for the endpoint, a Read whose fetch is answered
\* 404 removes the resource from the state and reports no error; a Read whose
\* fetch fails in any other way reports an error and leaves the state as it
\* was.
C21_NotFoundRemoves ==
    (op \in Reads /\ pc = "done" /\ Len(calls) = 1) =>
        /\ calls[1].resp = Response(404) => tfstate = RemovedState /\ diags = <<>>
        /\ calls[1].resp \notin {Response(404), Response(200)} =>
               Len(diags) >= 1 /\ tfstate = plan

\* C22: Delete, of a stream and of an endpoint, makes exactly one remote call,
\* the remove or the archive; a transport error or a status other than 200
\* ends it with an error, and no second call is made.
C22_DeleteOnce ==
    op \in Deletes =>
        /\ Len(calls) <= 1
        /\ pc = "done" =>
               /\ Len(calls) = 1
               /\ calls[1].kind = IF op = "StreamDelete" THEN "remove" ELSE "archive"
               /\ calls[1].resp = Response(200) => diags = <<>>
               /\ calls[1].resp # Response(200) => Len(diags) = 1

C22_Witness ==
    /\ op = "StreamDelete" /\ pc = "done"
    /\ calls[1].resp = Response(404)
    /\ Len(diags) = 1


\* What a Read of a stream returns for an id and a fetched body.
StreamReadOf(id, body) ==
    [readStreamFromAPI(Response(200), body).data EXCEPT !.id = id]

\* What a Read of an endpoint returns for an id and a fetched body.
EndpointReadOf(id, body) ==
    [id |-> id,
     label |-> IF body.label # "" THEN StringValue(body.label) ELSE StringNull,
     tags |-> IF Len(body.tags) > 0
              THEN ListValueFrom([i \in 1..Len(body.tags) |-> body.tags[i].label])
              ELSE ListNull]

\* C30: Read, of a stream and of an endpoint, issues one fetch and no other
\* call; the state it returns is determined by the id of the prior state and
\* the body fetched, whatever else the prior state held (an import holds the
\* id only); and a Read repeated against the unchanged remote returns the
\* state the first Read returned.
C30_ReadIsFunction ==
    op \in Reads =>
        /\ Len(calls) <= 1
        /\ \A i \in 1..Len(calls) : calls[i].kind = "fetch"
        /\ (pc = "done" /\ written) =>
               /\ Len(calls) = 1
               /\ tfstate = IF op = "StreamRead"
                            THEN StreamReadOf(plan.id, calls[1].body)
                            ELSE EndpointReadOf(plan.id, calls[1].body)
               /\ calls[1].body = IF op = "StreamRead" THEN remote
                                  ELSE EndpointBody(epRemote)
               /\ (loc.round = 2 /\ interfered = 0) => tfstate = loc.prev

C30_Witness ==
    /\ op = "StreamRead" /\ pc = "done" /\ written
    /\ loc.round = 2 /\ interfered = 0
    /\ tfstate = loc.prev
    /\ tfstate.name = StringValue("n1")
    /\ ~tfstate.destination_attributes.null


\* ---- the codec of destination_attributes ----

Variants == {"webhook", "s3", "postgres"}

\* The fields the extractor of a variant asserts, each with an error that
\* names it.
RequiredOf(d) ==
    LET checks == CASE d = "webhook" -> WebhookChecks
                    [] d = "s3" -> S3Checks
                    [] OTHER -> PostgresChecks
    IN  {checks[i][1] : i \in 1..Len(checks)}

Declared(obj) == {k \in AttrFields : ~obj.v[k].null}

\* C23: in Create and Update of a stream, when the declared attributes leave
\* unset a field that the variant of the plan's destination requires, the
\* encoding fails: the handler returns an error and issues neither the create
\* nor the update call.
C23_MissingFieldFails ==
    (/\ op \in {"StreamCreate", "StreamUpdate"}
     /\ plan.destination.v \in Variants
     /\ RequiredOf(plan.destination.v) \ Declared(plan.destination_attributes) # {})
    => /\ Idx("create") = {} /\ Idx("update") = {}
       /\ pc = "done" => (Len(diags) >= 1 /\ ~written)

\* The fields of the wire structure of a variant.
VariantFields(d) == IF d = "webhook" THEN RequiredOf(d) \cup {"security_token"} ELSE RequiredOf(d)

AfterCreate == op = "StreamRead" /\ loc.round = 0 /\ pc = "done" /\ written

\* C24: for a supported destination and declared attributes that are all
\* fields of its variant, with a remote that returns what it was sent, the
\* Read that follows a successful Create returns for every declared attribute
\* its declared value.
C24_RoundTrip ==
    (/\ AfterCreate
     /\ loc.prev.destination.v \in Variants
     /\ Declared(loc.prev.destination_attributes) \subseteq VariantFields(loc.prev.destination.v))
    => \A k \in Declared(loc.prev.destination_attributes) :
           tfstate.destination_attributes.v[k] = loc.prev.destination_attributes.v[k]

\* C25: a stream Create whose destination is outside {webhook, s3, postgres},
\* function included, returns the unsupported-destination error, issues no
\* remote call and saves no state.
C25_UnsupportedDestination ==
    (op = "StreamCreate" /\ plan.destination.v \notin Variants)
    => /\ calls = <<>>
       /\ ~written /\ ~remote.exists
       /\ pc \in {"encode", "done"}
       /\ pc = "done" => diags = <<"Unsupported destination type">>

C25_Witness ==
    /\ op = "StreamCreate" /\ plan.destination.v = "function"
    /\ plan.destination_attributes = WebhookFull
    /\ pc = "done" /\ diags = <<"Unsupported destination type">>

StreamOps == {"StreamCreate", "StreamUpdate", "StreamRead"}

\* The destination_attributes of the fetch a stream handler ended with.
LastWire == calls[Len(calls)].body.destination_attributes

StateDecoded == op \in StreamOps /\ pc = "done" /\ written /\ Len(calls) >= 1

\* C26: the destination_attributes a stream handler decodes from a fetched
\* payload carry every field of the schema, none omitted, and every schema
\* field the payload does not carry is null.
C26_EveryFieldCarried ==
    StateDecoded =>
        LET obj == tfstate.destination_attributes
        IN  /\ ~obj.null
            /\ DOMAIN obj.v = AttrFields
            /\ \A k \in AttrFields \ DOMAIN LastWire : obj.v[k] = NullOf(AttrType(k))

C26_Witness ==
    /\ op = "StreamRead" /\ StateDecoded
    /\ LastWire = WebhookWire
    /\ \A k \in {"port", "bucket", "host"} : tfstate.destination_attributes.v[k].null
    /\ tfstate.destination_attributes.v["url"] = StringValue("https://hook")

\* C27: whenever a stream handler has decoded a fetched payload into the state
\* it saves, every numeric member of the payload had an integral value and
\* the state holds exactly that integer: a payload with a fractional number
\* is never decoded into a saved state.
C27_LosslessNumbers ==
    StateDecoded =>
        \A k \in DOMAIN LastWire :
            LastWire[k].t = "number" =>
                /\ LastWire[k].tenths % 10 = 0
                /\ tfstate.destination_attributes.v[k] = Int64Value(LastWire[k].tenths \div 10)

\* The attributes the schema marks Computed: left unset, they take the value
\* the provider returns without a difference.
ComputedFields == {"security_token", "version"}

\* C28: an empty string of the payload in access_key, secret_key, bucket,
\* region, file_compression or sslmode is decoded to null, and the Read that
\* follows a successful Create against an unchanged remote returns null for
\* every attribute the configuration left unset.
C28_NoSpuriousDiff ==
    /\ StateDecoded =>
           \A k \in EmptyAsNull \cap DOMAIN LastWire :
               LastWire[k] = JString("") => tfstate.destination_attributes.v[k] = StringNull
    /\ (AfterCreate /\ loc.prev.destination.v \in Variants) =>
           \A k \in AttrFields \ (Declared(loc.prev.destination_attributes) \cup ComputedFields) :
               tfstate.destination_attributes.v[k].null

\* C29: in Create and Update of a stream, the create or update call is issued
\* only for a plan whose declared attributes are all fields of the variant
\* named by its destination: a plan that declares a field of another variant
\* is rejected before the call.
C29_OneVariantPopulated ==
    (op \in {"StreamCreate", "StreamUpdate"} /\ Idx("create") \cup Idx("update") # {})
    => /\ plan.destination.v \in Variants
       /\ Declared(plan.destination_attributes) \subseteq VariantFields(plan.destination.v)

\* ---- endpoint Update and the prior state ----

\* The tags of the endpoint as the fetch of this Update returned them.
FetchedTags == calls[CHOOSE i \in Idx("fetch") : Succeeded(calls[i])].body.tags

\* C31: the CreateTag and DeleteTag calls of an endpoint Update are those the
\* desired tags and the tags returned by the fetch of this Update determine,
\* whatever tag list the prior state holds: additions are desired labels the
\* fetch lacks, removals are fetched tags that are not desired, and a
\* successful Update has issued all of them.
C31_TagCallsFromFetch ==
    TagsFetched =>
        LET toAdd == Desired \ {t.label : t \in FetchedTags}
            toRemove == {t \in FetchedTags : t.label \notin Desired}
        IN  /\ Created \subseteq toAdd
            /\ Deleted \subseteq toRemove
            /\ (pc = "done" /\ written) => Created = toAdd /\ Deleted = toRemove

\* The prior state lists a tag the remote endpoint no longer has; the tag is
\* desired and is created.
C31_Witness ==
    /\ TagsFetched /\ pc = "done" /\ written /\ loc.round = 1
    /\ loc.prev.tags = <<"b">>
    /\ "b" \in Desired
    /\ "b" \notin {t.label : t \in FetchedTags}
    /\ "b" \in Created

\* ---- validation at plan time ----

\* C32: the integer range validator reports an error exactly for a known
\* value outside [min, max] and accepts null and unknown values; max_retry
\* accepts exactly 0..100 and port exactly 1..65535.
C32_RangeValidator ==
    op = "ValidateInt64" =>
        LET v == plan.validator
            x == plan.ConfigValue
            known == ~x.null /\ ~IsUnknown(x)
        IN  /\ (diags # <<>>) <=> (known /\ ~(v.min <= x.v /\ x.v <= v.max))
            /\ Len(diags) <= 1
            /\ (v = MaxRetryValidator /\ known) => ((diags = <<>>) <=> x.v \in 0..100)
            /\ (v = PortValidator /\ known) => ((diags = <<>>) <=> x.v \in 1..65535)

C32_Witness ==
    /\ op = "ValidateInt64"
    /\ plan.validator = PortValidator
    /\ plan.ConfigValue = Int64Value(65535)
    /\ diags = <<>>

ChainMatches == {i \in DOMAIN plan.chains :
                    ToLower(plan.chains[i].slug) = ToLower(ValueString(plan.data.chain))}

NetworkMatches(i) == \E j \in DOMAIN plan.chains[i].networks :
    ToLower(plan.chains[i].networks[j]) = ToLower(ValueString(plan.data.network))

\* C39: ModifyPlan of an endpoint accepts the configuration exactly when some
\* chain of the catalog has the configured chain's slug and a network with
\* the configured network's slug, case ignored; otherwise it reports Invalid
\* Chain exactly when no chain of the catalog matches and Invalid Network
\* exactly when a chain matches but none of its networks does. A plan that is
\* null is not validated.
C39_ChainNetworkValidation ==
    op = "ModifyPlan" =>
        /\ plan.planIsNull => diags = <<>>
        /\ ~plan.planIsNull =>
            /\ (diags = <<>>) <=> (\E i \in ChainMatches : NetworkMatches(i))
            /\ (diags = <<"Invalid Chain">>) <=> (ChainMatches = {})
            /\ (diags = <<"Invalid Network">>) <=>
                   (ChainMatches # {} /\ ~\E i \in ChainMatches : NetworkMatches(i))

\* ---- the call chain of stream Update ----

\* The place of call i in the chain: status fetch, Pause, core update,
\* Activate, final fetch (0 for any other call).
ChainRank(i) ==
    CASE calls[i].kind = "fetch" -> IF i = 1 THEN 1 ELSE 5
      [] calls[i].kind = "pause" -> 2
      [] calls[i].kind = "update" -> 3
      [] calls[i].kind = "activate" -> 4
      [] OTHER -> 0

\* C33: the remote calls of one stream Update are, in order, a subsequence of
\* status fetch, Pause, core update, Activate, final fetch, each at most once
\* and at most five in all; the status fetch is the first call, and when it
\* fails the handler has returned with no other call.
C33_CallChain ==
    op = "StreamUpdate" =>
        /\ Len(calls) <= 5
        /\ \A i \in 1..Len(calls) : ChainRank(i) # 0
        /\ \A i, j \in 1..Len(calls) : i < j => ChainRank(i) < ChainRank(j)
        /\ Len(calls) >= 1 => calls[1].kind = "fetch"
        /\ pc # "fetch" => Len(calls) >= 1
        /\ (Len(calls) >= 1 /\ ~Succeeded(calls[1])) => (Len(calls) = 1 /\ pc = "done")

C33_Witness ==
    /\ op = "StreamUpdate" /\ pc = "done" /\ written
    /\ Kinds = <<"fetch", "pause", "update", "activate", "fetch">>

\* ---- liveness of the throttled transport ----

\* C34: with capacity >= 1, under fair scheduling, a call that waits for a
\* token and is not cancelled is eventually admitted: its wait ends, and the
\* request is passed to the wrapped transport.
C34_EventuallyAdmitted ==
    \A c \in Calls :
        /\ (capacity >= 1 /\ c \in Waiting)
               ~> (ctx[c] = "cancelled" \/ (cpc[c] = "attempt" /\ invoked[c]))
        /\ (cpc[c] = "attempt") ~> (cpc[c] \in {"backoff", "done"} /\ attempts[c] >= 1)

\* Both calls were passed to the wrapped transport with one token of
\* capacity, the second after time has passed.
C34_Witness ==
    /\ capacity = 1 /\ now >= 1
    /\ \A c \in Calls : ctx[c] = "live" /\ invoked[c] /\ attempts[c] >= 1

\* ---- stream Update and a concurrent change ----

\* C35: when the status fetch of a stream Update returned a status other than
\* active, Update issues no Pause and no Activate and its core update is the
\* call after the fetch, also when another actor has made the stream active
\* in between; the change is not detected: once the core update was issued,
\* an error is reported only for a call that failed.
C35_MutationUndetected ==
    (Fetched /\ FetchedStatus # "active") =>
        /\ Idx("pause") = {} /\ Idx("activate") = {}
        /\ Idx("update") \subseteq {2}
        /\ (Idx("update") = {2} /\ diags # <<>>) =>
               (~Succeeded(calls[Len(calls)]) /\ Len(diags) = 1)
        /\ (Idx("update") = {2} /\ Succeeded(calls[2])) => pc \in {"refetch", "done"}

C35_Witness ==
    /\ Fetched /\ FetchedStatus = "paused" /\ interfered >= 1
    /\ Kinds = <<"fetch", "update", "fetch">>
    /\ calls[2].pre = "active" /\ Succeeded(calls[2])
    /\ pc = "done" /\ written /\ diags = <<>>

\* ---- the text of request errors ----

\* C36: in endpoint Create, every request error reported for a call that was
\* answered with an unexpected status shows the status of that call's
\* response, the label update's included.
C36_MessageFromFailingResponse ==
    op = "EndpointCreate" =>
        \A i \in 1..Len(loc.messages) :
            LET m == loc.messages[i]
            IN  /\ m.about \in 1..Len(calls)
                /\ ~calls[m.about].resp.err
                /\ m.status = calls[m.about].resp.code

\* ---- stream Update and a failed encoding ----

EncodeFailed ==
    /\ op = "StreamUpdate" /\ Len(diags) >= 1
    /\ diags[1] \in {"Unsupported destination type", "Error converting destination_attributes"}

\* C37: when the encoding of destination_attributes fails in a stream Update,
\* the handler has returned with that one error, no core update and no
\* Activate was issued and no state written; when the fetched status was
\* active the Pause was made before the encoding, so (no other actor changing
\* the stream) it is left paused.
C37_EncodeFailureAfterPause ==
    EncodeFailed =>
        /\ pc = "done" /\ Len(diags) = 1 /\ ~written
        /\ Idx("update") = {} /\ Idx("activate") = {}
        /\ FetchedStatus = "active" =>
               /\ Kinds = <<"fetch", "pause">> /\ Succeeded(calls[2])
               /\ interfered = 0 => remote.status = "paused"
        /\ FetchedStatus # "active" => Kinds = <<"fetch">>

C37_Witness ==
    /\ EncodeFailed /\ plan.destination.v = "function"
    /\ FetchedStatus = "active" /\ interfered = 0
    /\ Kinds = <<"fetch", "pause">>
    /\ remote.status = "paused"

\* ---- endpoint Create and a label update without a response ----

LabelTransportError ==
    /\ op = "EndpointCreate" /\ Len(calls) >= 2
    /\ calls[2].kind = "update" /\ calls[2].resp.err

\* C38: in endpoint Create, when the label-update call ended in a transport
\* error, the error is recorded and the handler completes normally: it does
\* not stop in the read of the status of the absent response.
C38_NoStatusReadWithoutResponse ==
    LabelTransportError =>
        /\ \E i \in 1..Len(diags) : diags[i] = "Patching Endpoint Label"
        /\ pc # "panic"

============================================================================
